---- MODULE Spec2Model ----
(***************************************************************************)
(* Model of the three diagnostic scripts of the ParkTayo backend:          *)
(*   analyze_sms_config.py  (configuration analyzer)                       *)
(*   test_sms_api.py        (SMS API tester)                               *)
(*   test_places_api.py     (Google Places tester)                         *)
(* Text is modelled as a sequence of one-character strings, so that the    *)
(* string operations of the scripts (strip, split, substring search) are   *)
(* computed and not assumed.                                               *)
(***************************************************************************)
EXTENDS Integers, Sequences, FiniteSets, TLC

VARIABLES
    envFile,        \* the .env file: [exists, text]
    placesConfig,   \* result of test_places_api.read_env_file: [done, ok, cfg]
    analyzerConfig, \* result of analyze_sms_config.read_env_file: [done, ok, cfg]
    cliKey,         \* --key argument: [set, v]
    envVar,         \* os.environ GOOGLE_MAPS_API_KEY: [set, v]
    keyResult,      \* outcome of resolve_api_key: [kind, value]
    srcFile,        \* src/services/smsService.js: [exists, text]
    analyzerScan,   \* result of check_sms_service_code: [done, issues, recognised]
    testerScan,     \* result of verify_current_config: [done, issues, recognised]
    sumData,        \* the decoded body handed to summarize: a JSON value
    sumOut,         \* what summarize did: [done, exc, items, count, shown]
    httpIn,         \* what urlopen does: [kind, status, body]
    getResult,      \* outcome of http_get: [kind, status, data]
    postResult,     \* outcome of http_post_json: [kind, status, data]
    script,         \* the script that runs
    pc,             \* its position in main()
    out,            \* what it reported to the operator, in order
    reqs,           \* the HTTP requests it issued, in order
    exitStatus,     \* the exit status of the process, -1 while it runs
    cause,          \* why the process ended: "", "return" or what was raised
    confirm,        \* the operator's answer to the prompt: [read, text]
    ret,            \* the value returned by the last step of main()
    args,           \* the command line of the Places tester
    lastCall        \* the last HTTP call: [call, cond, report, o], o what the transport did

envVars  == <<envFile, placesConfig, analyzerConfig>>
keyVars  == <<cliKey, envVar, keyResult>>
scanVars == <<srcFile, analyzerScan, testerScan>>
sumVars  == <<sumData, sumOut>>
httpVars == <<httpIn, getResult, postResult>>
runVars  == <<script, pc, out, reqs, exitStatus, cause, confirm, ret, args, lastCall>>

vars == <<envVars, keyVars, scanVars, sumVars, httpVars, runVars>>

(***************************************************************************)
(* JSON values as Python holds them: a type tag and the payload.           *)
(***************************************************************************)
JNull     == [t |-> "null", v |-> <<>>]
JInt(n)   == [t |-> "int", v |-> n]
JStr(s)   == [t |-> "str", v |-> s]
JList(l)  == [t |-> "list", v |-> l]
JDict(f)  == [t |-> "dict", v |-> f]

(***************************************************************************)
(* Bounds of the model.                                                    *)
(***************************************************************************)
MaxEnvLen == 5
MaxFragments == 3
MaxItems == 6
MaxBodyLen == 5
MaxDevices == 2
MaxAnswerLen == 2

(***************************************************************************)
(* Text helpers (Python str semantics).                                    *)
(***************************************************************************)
Whitespace == {" ", "\t", "\n", "\r"}

Range(s) == {s[i] : i \in 1..Len(s)}

RECURSIVE lstrip(_)
lstrip(s) ==
    IF s = <<>> THEN s
    ELSE IF Head(s) \in Whitespace THEN lstrip(Tail(s)) ELSE s

RECURSIVE rstrip(_)
rstrip(s) ==
    IF s = <<>> THEN s
    ELSE IF s[Len(s)] \in Whitespace THEN rstrip(SubSeq(s, 1, Len(s) - 1)) ELSE s

\* str.strip()
strip(s) == rstrip(lstrip(s))

\* str.startswith(prefix)
startswith(s, p) == Len(s) >= Len(p) /\ SubSeq(s, 1, Len(p)) = p

\* index of the first occurrence of character c in s, 0 when there is none
RECURSIVE FindFrom(_, _, _)
FindFrom(s, c, i) ==
    IF i > Len(s) THEN 0
    ELSE IF s[i] = c THEN i ELSE FindFrom(s, c, i + 1)

find(s, c) == FindFrom(s, c, 1)

\* str.split(sep, 1) of a string that contains sep: <<before, after>>
split1(s, sep) ==
    LET i == find(s, sep)
    IN  <<SubSeq(s, 1, i - 1), SubSeq(s, i + 1, Len(s))>>

\* Iterating a text file: the lines, each with its terminating "\n" kept
RECURSIVE FileLines(_)
FileLines(text) ==
    IF text = <<>> THEN <<>>
    ELSE LET i == find(text, "\n")
         IN  IF i = 0 THEN <<text>>
             ELSE <<SubSeq(text, 1, i)>> \o FileLines(SubSeq(text, i + 1, Len(text)))

\* dict[key] = value
DictSet(d, k, v) == [x \in (DOMAIN d) \cup {k} |-> IF x = k THEN v ELSE d[x]]

EmptyDict == <<>>

(***************************************************************************)
(* read_env_file: the loop shared by both implementations.                 *)
(***************************************************************************)
EnvLineFirstWins(config, rawLine) ==
    LET line == strip(rawLine)
    IN  IF line # <<>> /\ ~startswith(line, <<"#">>) /\ "=" \in Range(line)
        THEN LET kv == split1(line, "=")
             IN  IF strip(kv[1]) \in DOMAIN config THEN config
                 ELSE DictSet(config, strip(kv[1]), strip(kv[2]))
        ELSE config

EnvLine(config, rawLine) ==
    LET line == strip(rawLine)
    IN  IF line # <<>> /\ ~startswith(line, <<"#">>) /\ "=" \in Range(line)
        THEN LET kv == split1(line, "=")
             IN  DictSet(config, strip(kv[1]), strip(kv[2]))
        ELSE config

RECURSIVE ParseEnvLines(_, _)
ParseEnvLines(lines, config) ==
    IF lines = <<>> THEN config
    ELSE ParseEnvLines(Tail(lines), EnvLine(config, Head(lines)))

\* test_places_api.read_env_file: a missing file gives the empty map
PlacesReadEnv(file) ==
    IF file.exists THEN ParseEnvLines(FileLines(file.text), EmptyDict)
    ELSE EmptyDict

\* analyze_sms_config.read_env_file: a missing file gives None
AnalyzerReadEnv(file) ==
    IF file.exists
    THEN [ok |-> TRUE, cfg |-> ParseEnvLines(FileLines(file.text), EmptyDict)]
    ELSE [ok |-> FALSE, cfg |-> EmptyDict]

(***************************************************************************)
(* Inputs: .env files.                                                     *)
(***************************************************************************)
EnvAlphabet == {"\n", " ", "#", "=", "A"}

RECURSIVE TextsUpTo(_, _)
TextsUpTo(alphabet, n) ==
    IF n = 0 THEN {<<>>}
    ELSE LET shorter == TextsUpTo(alphabet, n - 1)
         IN  shorter \cup {Append(t, c) : t \in {u \in shorter : Len(u) = n - 1}, c \in alphabet}

\* the files named by the specification's examples
SampleLastWins == <<"A", "=", "1", "\n", "B", "=", "2", "\n", "A", "=", "3", "\n">>
SampleComment  == <<"#", " ", "A", "=", "1">>
SampleNoKey    == <<"N", "O", "K", "E", "Y">>
SampleSplit    == <<" ", "K", " ", "=", " ", "a", "=", "b", " ", "\n">>

SampleEnvTexts == {SampleLastWins, SampleComment, SampleNoKey, SampleSplit}

EnvTexts == TextsUpTo(EnvAlphabet, MaxEnvLen) \cup SampleEnvTexts

MissingFile == [exists |-> FALSE, text |-> <<>>]

EnvFiles == {[exists |-> TRUE, text |-> t] : t \in EnvTexts} \cup {MissingFile}

NotRead == [done |-> FALSE, ok |-> FALSE, cfg |-> EmptyDict]

NoValue == [set |-> FALSE, v |-> <<>>]

NoKeyResult == [kind |-> "none", value |-> <<>>]

(***************************************************************************)
(* Specification SpecEnv: both read_env_file implementations on one file.  *)
(***************************************************************************)
NotScanned == [done |-> FALSE, issues |-> <<>>, recognised |-> <<>>]

\* the variables of the other specifications, at rest
KeyIdle == cliKey = NoValue /\ envVar = NoValue /\ keyResult = NoKeyResult

ScanIdle == srcFile = MissingFile /\ analyzerScan = NotScanned /\ testerScan = NotScanned

EnvIdle == envFile = MissingFile /\ placesConfig = NotRead /\ analyzerConfig = NotRead

NotSummarized ==
    [done |-> FALSE, exc |-> "", selected |-> FALSE, items |-> JNull, count |-> -1, shown |-> <<>>]

SumIdle == sumData = JNull /\ sumOut = NotSummarized

NoHttp == [kind |-> "none", status |-> 0, body |-> <<>>]

NoHttpResult == [kind |-> "none", exc |-> "", status |-> 0, data |-> JNull]

HttpIdle == httpIn = NoHttp /\ getResult = NoHttpResult /\ postResult = NoHttpResult

NoAnswer == [read |-> FALSE, text |-> <<>>]

NoArgs == [mode |-> "", backend |-> FALSE, location |-> <<>>]

NoCall == [call |-> "", cond |-> "", report |-> <<>>, o |-> NoHttp]

RunIdle ==
    /\ script = "none" /\ pc = "idle" /\ out = <<>> /\ reqs = <<>>
    /\ exitStatus = -1 /\ cause = "" /\ confirm = NoAnswer /\ ret = JNull
    /\ args = NoArgs /\ lastCall = NoCall

InitEnv ==
    /\ envFile \in EnvFiles
    /\ placesConfig = NotRead
    /\ analyzerConfig = NotRead
    /\ KeyIdle /\ ScanIdle /\ SumIdle /\ HttpIdle /\ RunIdle

PlacesReadEnvFile ==
    /\ ~placesConfig.done
    /\ placesConfig' = [done |-> TRUE, ok |-> TRUE, cfg |-> PlacesReadEnv(envFile)]
    /\ UNCHANGED <<envFile, analyzerConfig, keyVars, scanVars, sumVars, httpVars, runVars>>

AnalyzerReadEnvFile ==
    /\ ~analyzerConfig.done
    /\ analyzerConfig' = [done |-> TRUE] @@ AnalyzerReadEnv(envFile)
    /\ UNCHANGED <<envFile, placesConfig, keyVars, scanVars, sumVars, httpVars, runVars>>

NextEnv == PlacesReadEnvFile \/ AnalyzerReadEnvFile

SpecEnv == InitEnv /\ [][NextEnv]_vars

(***************************************************************************)
(* The parsing rule of the specification, stated on the text directly.     *)
(***************************************************************************)
RuleSpace == {" ", "\t", "\r"}

RuleTrim(s) ==
    LET solid == {i \in 1..Len(s) : s[i] \notin RuleSpace}
    IN  IF solid = {} THEN <<>>
        ELSE SubSeq(s, CHOOSE i \in solid : \A j \in solid : i <= j,
                       CHOOSE i \in solid : \A j \in solid : i >= j)

\* positions where a line of the text starts
LineStarts(t) == {i \in 1..Len(t) : i = 1 \/ t[i - 1] = "\n"}

\* the line starting at i, without its newline
LineAt(t, i) ==
    LET ends == {j \in i..Len(t) : t[j] = "\n"}
    IN  IF ends = {} THEN SubSeq(t, i, Len(t))
        ELSE SubSeq(t, i, (CHOOSE j \in ends : \A k \in ends : j <= k) - 1)

FirstEq(s) == CHOOSE i \in 1..Len(s) : s[i] = "=" /\ \A j \in 1..(i - 1) : s[j] # "="

Significant(l) ==
    LET s == RuleTrim(l)
    IN  s # <<>> /\ s[1] # "#" /\ \E i \in 1..Len(s) : s[i] = "="

RuleKey(l) == LET s == RuleTrim(l) IN RuleTrim(SubSeq(s, 1, FirstEq(s) - 1))

RuleValue(l) == LET s == RuleTrim(l) IN RuleTrim(SubSeq(s, FirstEq(s) + 1, Len(s)))

ExpectedEnvMap(t) ==
    LET sig  == {i \in LineStarts(t) : Significant(LineAt(t, i))}
        keys == {RuleKey(LineAt(t, i)) : i \in sig}
        last(k) == CHOOSE i \in sig :
                       /\ RuleKey(LineAt(t, i)) = k
                       /\ \A j \in sig : RuleKey(LineAt(t, j)) = k => j <= i
    IN  [k \in keys |-> RuleValue(LineAt(t, last(k)))]

\* C2: for every existing .env file both read_env_file implementations return
\* exactly the map of the parsing rule: significant lines only, split at the
\* first '=', key and value trimmed, the last line of a key wins.
C2_ReadEnvFollowsRule ==
    envFile.exists =>
        /\ placesConfig.done => placesConfig.cfg = ExpectedEnvMap(envFile.text)
        /\ analyzerConfig.done =>
               analyzerConfig.ok /\ analyzerConfig.cfg = ExpectedEnvMap(envFile.text)

\* C2 witness: the example file "A=1\nB=2\nA=3\n" was read by both
\* implementations and gave A="3", B="2".
C2_Witness ==
    /\ envFile = [exists |-> TRUE, text |-> SampleLastWins]
    /\ placesConfig.done /\ analyzerConfig.done
    /\ placesConfig.cfg[<<"A">>] = <<"3">>
    /\ analyzerConfig.cfg[<<"B">>] = <<"2">>
    /\ DOMAIN placesConfig.cfg = {<<"A">>, <<"B">>}

(***************************************************************************)
(* resolve_api_key (test_places_api.py).                                   *)
(***************************************************************************)
GOOGLE_MAPS_API_KEY ==
    <<"G", "O", "O", "G", "L", "E", "_", "M", "A", "P", "S", "_", "A", "P", "I", "_", "K", "E", "Y">>

\* Python truthiness of an optional string: not None and not ''
Truthy(opt) == opt.set /\ opt.v # <<>>

\* dict.get(key) as an optional value
DictGet(d, k) == IF k \in DOMAIN d THEN [set |-> TRUE, v |-> d[k]] ELSE NoValue

Returned(v) == [kind |-> "return", value |-> v]

SystemExitKeyNotFound == [kind |-> "SystemExit", value |-> <<>>]

resolve_api_key_env_first(cli_key, environ, file) ==
    IF Truthy(environ) THEN Returned(environ.v)
    ELSE IF Truthy(cli_key) THEN Returned(cli_key.v)
    ELSE LET key == DictGet(PlacesReadEnv(file), GOOGLE_MAPS_API_KEY)
         IN  IF ~Truthy(key) THEN SystemExitKeyNotFound ELSE Returned(key.v)

\* a variant that takes --key whenever it was given, empty or not
resolve_api_key_given_cli(cli_key, environ, file) ==
    IF cli_key.set THEN Returned(cli_key.v)
    ELSE IF Truthy(environ) THEN Returned(environ.v)
    ELSE LET key == DictGet(PlacesReadEnv(file), GOOGLE_MAPS_API_KEY)
         IN  IF ~Truthy(key) THEN SystemExitKeyNotFound ELSE Returned(key.v)

resolve_api_key(cli_key, environ, file) ==
    IF Truthy(cli_key) THEN Returned(cli_key.v)
    ELSE IF Truthy(environ) THEN Returned(environ.v)
    ELSE LET key == DictGet(PlacesReadEnv(file), GOOGLE_MAPS_API_KEY)
         IN  IF ~Truthy(key) THEN SystemExitKeyNotFound ELSE Returned(key.v)

(***************************************************************************)
(* Specification SpecKey: resolve_api_key on every combination of sources. *)
(***************************************************************************)
KeyValues == {<<>>, <<"c">>, <<"e">>, <<"f">>}

OptionalKeys == {NoValue} \cup {[set |-> TRUE, v |-> x] : x \in KeyValues}

KeyLine(v) == GOOGLE_MAPS_API_KEY \o <<"=">> \o v \o <<"\n">>

KeyFileTexts ==
    {KeyLine(v) : v \in KeyValues}
        \cup {KeyLine(<<"e">>) \o KeyLine(<<"f">>),
              <<"#">> \o KeyLine(<<"f">>),
              SampleLastWins,
              <<>>}

KeyFiles == {[exists |-> TRUE, text |-> t] : t \in KeyFileTexts} \cup {MissingFile}

InitKey ==
    /\ envFile \in KeyFiles
    /\ cliKey \in OptionalKeys
    /\ envVar \in OptionalKeys
    /\ keyResult = NoKeyResult
    /\ placesConfig = NotRead
    /\ analyzerConfig = NotRead
    /\ ScanIdle /\ SumIdle /\ HttpIdle /\ RunIdle

ResolveApiKey ==
    /\ keyResult.kind = "none"
    /\ keyResult' = resolve_api_key(cliKey, envVar, envFile)
    /\ UNCHANGED <<envVars, cliKey, envVar, scanVars, sumVars, httpVars, runVars>>

NextKey == ResolveApiKey

SpecKey == InitKey /\ [][NextKey]_vars

\* the value the parsing rule gives the key in the file, if any
FileKey ==
    IF envFile.exists
    THEN DictGet(ExpectedEnvMap(envFile.text), GOOGLE_MAPS_API_KEY)
    ELSE NoValue

\* C1 (as stated): resolve_api_key returns the CLI key when non-empty, else
\* the environment variable when non-empty, else the value parsed from the
\* .env file, for every combination of present, absent or empty sources.
C1_AlwaysReturnsByPrecedence ==
    keyResult.kind # "none" =>
        /\ keyResult.kind = "return"
        /\ IF Truthy(cliKey) THEN keyResult.value = cliKey.v
           ELSE IF Truthy(envVar) THEN keyResult.value = envVar.v
           ELSE FileKey.set /\ keyResult.value = FileKey.v

\* C1 (amended): resolve_api_key returns the CLI key when non-empty, else the
\* environment variable when non-empty, else the value parsed from the .env
\* file when that is non-empty; when the file value is absent or empty too it
\* returns nothing and raises SystemExit.
C1_PrecedenceOrExit ==
    keyResult.kind # "none" =>
        IF Truthy(cliKey) THEN keyResult = Returned(cliKey.v)
        ELSE IF Truthy(envVar) THEN keyResult = Returned(envVar.v)
        ELSE IF Truthy(FileKey) THEN keyResult = Returned(FileKey.v)
        ELSE keyResult.kind = "SystemExit"

\* C1 witness: all three sources present with different values, and the CLI
\* value was returned.
C1_Witness ==
    /\ Truthy(cliKey) /\ Truthy(envVar) /\ Truthy(FileKey)
    /\ cliKey.v # envVar.v /\ envVar.v # FileKey.v /\ cliKey.v # FileKey.v
    /\ keyResult = Returned(cliKey.v)

(***************************************************************************)
(* The source scanners: check_sms_service_code (analyze_sms_config.py)    *)
(* and verify_current_config (test_sms_api.py).                            *)
(***************************************************************************)
\* Python's `pat in s` for strings
Contains(s, pat) ==
    \E i \in 1..(Len(s) - Len(pat) + 1) : SubSeq(s, i, i + Len(pat) - 1) = pat

\* str.split(sep): always at least one piece
RECURSIVE split(_, _)
split(s, sep) ==
    LET i == find(s, sep)
    IN  IF i = 0 THEN <<s>>
        ELSE <<SubSeq(s, 1, i - 1)>> \o split(SubSeq(s, i + 1, Len(s)), sep)

DevicesKey == <<"d", "e", "v", "i", "c", "e", "s", ":">>
Lit11 == <<"'", "1", "|", "1", "'">>
Lit22 == <<"'", "2", "|", "2", "'">>
Lit00 == <<"'", "0", "|", "0", "'">>
TemplateDevice ==
    <<"$", "{", "t", "h", "i", "s", ".", "d", "e", "f", "a", "u", "l", "t",
      "D", "e", "v", "i", "c", "e", "}">>

\* the condition both scanners use for a hardcoded device
IsHardcoded(line) ==
    /\ Contains(line, DevicesKey)
    /\ (Contains(line, Lit11) \/ Contains(line, Lit22) \/ Contains(line, Lit00))

\* the condition both scanners use for a templated device
IsTemplated(line) == Contains(line, DevicesKey) /\ Contains(line, TemplateDevice)

\* check_sms_service_code, loop of lines 119-131: two independent ifs
RECURSIVE AnalyzerScanLines(_, _, _)
AnalyzerScanLines(lines, i, acc) ==
    IF i > Len(lines) THEN acc
    ELSE LET a == IF IsHardcoded(lines[i])
                  THEN [acc EXCEPT !.issues = Append(@, i)] ELSE acc
             b == IF IsTemplated(lines[i])
                  THEN [a EXCEPT !.recognised = Append(@, i)] ELSE a
         IN  AnalyzerScanLines(lines, i + 1, b)

check_sms_service_code(file) ==
    IF ~file.exists THEN [done |-> TRUE, issues |-> <<>>, recognised |-> <<>>]
    ELSE AnalyzerScanLines(split(file.text, "\n"), 1,
                           [done |-> TRUE, issues |-> <<>>, recognised |-> <<>>])

\* verify_current_config, loop of lines 284-290: if / elif
RECURSIVE TesterScanLines(_, _, _)
TesterScanLines(lines, i, acc) ==
    IF i > Len(lines) THEN acc
    ELSE LET b == IF IsHardcoded(lines[i])
                  THEN [acc EXCEPT !.issues = Append(@, i)]
                  ELSE IF IsTemplated(lines[i])
                       THEN [acc EXCEPT !.recognised = Append(@, i)]
                       ELSE acc
         IN  TesterScanLines(lines, i + 1, b)

verify_current_config(file) ==
    IF ~file.exists THEN [done |-> TRUE, issues |-> <<>>, recognised |-> <<>>]
    ELSE TesterScanLines(split(file.text, "\n"), 1,
                         [done |-> TRUE, issues |-> <<>>, recognised |-> <<>>])

(***************************************************************************)
(* Specification SpecScan: both scanners on one source file.               *)
(***************************************************************************)
Fragments == {DevicesKey, Lit11, Lit22, Lit00, TemplateDevice}

RECURSIVE FragmentLines(_)
FragmentLines(n) ==
    IF n = 0 THEN {<<>>}
    ELSE LET shorter == FragmentLines(n - 1)
         IN  shorter \cup {l \o <<" ">> \o f : l \in shorter, f \in Fragments}

\* the two lines of the specification's example, and a line with both (the
\* backquotes of the JavaScript template literal are left out: no pattern
\* of the scanners contains one)
SampleHardcodedLine == DevicesKey \o <<" ">> \o Lit22 \o <<",">>
SampleTemplatedLine ==
    DevicesKey \o <<" ">> \o TemplateDevice
        \o <<"|", "$", "{", "t", "h", "i", "s", ".", "d", "e", "f", "a", "u", "l", "t",
             "S", "i", "m", "S", "l", "o", "t", "}", ",">>
SampleMixedLine == SampleHardcodedLine \o <<" ", "/", "/", " ">> \o SampleTemplatedLine

SampleLines == {SampleHardcodedLine, SampleTemplatedLine, SampleMixedLine}

SrcTexts ==
    LET first == FragmentLines(MaxFragments) \cup SampleLines
    IN  first \cup {a \o <<"\n">> \o b : a \in first, b \in SampleLines}

SrcFiles == {[exists |-> TRUE, text |-> t] : t \in SrcTexts} \cup {MissingFile}

InitScan ==
    /\ srcFile \in SrcFiles
    /\ analyzerScan = NotScanned
    /\ testerScan = NotScanned
    /\ EnvIdle /\ KeyIdle /\ SumIdle /\ HttpIdle /\ RunIdle

CheckSmsServiceCode ==
    /\ ~analyzerScan.done
    /\ analyzerScan' = check_sms_service_code(srcFile)
    /\ UNCHANGED <<srcFile, testerScan, envVars, keyVars, sumVars, httpVars, runVars>>

VerifyCurrentConfig ==
    /\ ~testerScan.done
    /\ testerScan' = verify_current_config(srcFile)
    /\ UNCHANGED <<srcFile, analyzerScan, envVars, keyVars, sumVars, httpVars, runVars>>

NextScan == CheckSmsServiceCode \/ VerifyCurrentConfig

SpecScan == InitScan /\ [][NextScan]_vars

\* the lines of a text as split at every "\n" (a trailing newline gives a
\* last empty line)
SrcLineStarts(t) == {1} \cup {i + 1 : i \in {j \in 1..Len(t) : t[j] = "\n"}}

SrcLineAt(t, i) ==
    LET ends == {j \in i..Len(t) : t[j] = "\n"}
    IN  IF ends = {} THEN SubSeq(t, i, Len(t))
        ELSE SubSeq(t, i, (CHOOSE j \in ends : \A k \in ends : j <= k) - 1)

\* the 1-based number of the line starting at position i
SrcLineNo(t, i) == Cardinality({s \in SrcLineStarts(t) : s <= i})

\* the increasing sequence of the numbers in S
RECURSIVE Ascending(_)
Ascending(S) ==
    IF S = {} THEN <<>>
    ELSE LET m == CHOOSE x \in S : \A y \in S : x <= y
         IN  <<m>> \o Ascending(S \ {m})

HardcodedLineNos(t) ==
    {SrcLineNo(t, i) : i \in {s \in SrcLineStarts(t) :
        /\ Contains(SrcLineAt(t, s), DevicesKey)
        /\ \E lit \in {Lit11, Lit22, Lit00} : Contains(SrcLineAt(t, s), lit)}}

TemplatedLineNos(t) ==
    {SrcLineNo(t, i) : i \in {s \in SrcLineStarts(t) :
        /\ Contains(SrcLineAt(t, s), DevicesKey)
        /\ Contains(SrcLineAt(t, s), TemplateDevice)}}

ScanAsClaimed(scan) ==
    scan.done /\ srcFile.exists =>
        /\ scan.issues = Ascending(HardcodedLineNos(srcFile.text))
        /\ scan.recognised = Ascending(TemplatedLineNos(srcFile.text))

\* C9: both source scanners apply two independent per-line checks: one
\* hardcoded-device finding per line that contains `devices:` and one of
\* '1|1', '2|2', '0|0' (1-based line numbers, in line order), and a
\* recognition per line that contains `devices:` and ${this.defaultDevice},
\* regardless of the outcome of the other check.
C9_ScannersIndependentChecks == ScanAsClaimed(analyzerScan) /\ ScanAsClaimed(testerScan)

(***************************************************************************)
(* Python's operations on JSON values (dict: a function of key names,      *)
(* list: a sequence, str: text).                                           *)
(***************************************************************************)

PredictionsText == <<"p", "r", "e", "d", "i", "c", "t", "i", "o", "n", "s">>
ResultsText     == <<"r", "e", "s", "u", "l", "t", "s">>

KeyText(k) == IF k = "predictions" THEN PredictionsText ELSE ResultsText

\* Python truthiness
PyTruthy(x) ==
    CASE x.t = "null" -> FALSE
      [] x.t = "int"  -> x.v # 0
      [] x.t = "dict" -> DOMAIN x.v # {}
      [] OTHER        -> x.v # <<>>

\* a or b
PyOr(a, b) == IF PyTruthy(a) THEN a ELSE b

\* dict.get(k) and dict.get(k, default)
PyGet(d, k) == IF k \in DOMAIN d THEN d[k] ELSE JNull
PyGetDefault(d, k, default) == IF k \in DOMAIN d THEN d[k] ELSE default

\* `k in x`: "yes", "no", or the exception it raises
PyIn(k, x) ==
    CASE x.t = "dict" -> IF k \in DOMAIN x.v THEN "yes" ELSE "no"
      [] x.t = "list" -> IF \E i \in 1..Len(x.v) : x.v[i] = JStr(KeyText(k))
                         THEN "yes" ELSE "no"
      [] x.t = "str"  -> IF Contains(x.v, KeyText(k)) THEN "yes" ELSE "no"
      [] OTHER        -> "TypeError"

(***************************************************************************)
(* summarize (test_places_api.py:136-151).                                 *)
(***************************************************************************)
DisplayLimit == 5

Selected(items) == [exc |-> "", items |-> items]
SelectFails(exc) == [exc |-> exc, items |-> JNull]

\* data.get(k, []) on whatever `data` is
GetOrAttributeError(data, k) ==
    IF data.t = "dict" THEN Selected(PyGetDefault(data.v, k, JList(<<>>)))
    ELSE SelectFails("AttributeError")

\* lines 139-147: the item list, or the exception raised on the way
SelectItems(data) ==
    LET inP == PyIn("predictions", data)
        inR == PyIn("results", data)
    IN  IF inP = "TypeError" THEN SelectFails("TypeError")
        ELSE IF inP = "yes" THEN GetOrAttributeError(data, "predictions")
        ELSE IF inR = "yes" THEN GetOrAttributeError(data, "results")
        ELSE IF data.t # "dict" THEN SelectFails("AttributeError")
        ELSE IF PyGet(data.v, "data").t = "dict"
        THEN LET d == data.v["data"].v
             IN  Selected(PyOr(PyGet(d, "predictions"), PyOr(PyGet(d, "results"), JList(<<>>))))
        ELSE Selected(JList(<<>>))

\* str() of a value inside an f-string
Fmt(x) ==
    CASE x.t = "str"  -> x.v
      [] x.t = "null" -> <<"N", "o", "n", "e">>
      [] OTHER        -> <<"?">>

\* line 150
ItemDescription(item) ==
    LET d == PyGet(item.v, "description")
    IN  IF PyTruthy(d) THEN Fmt(d)
        ELSE Fmt(PyGetDefault(item.v, "mainText", JStr(<<>>))) \o <<" ", "-", " ">>
                 \o Fmt(PyGetDefault(item.v, "secondaryText", JStr(<<>>)))

\* line 151
ItemPlaceId(item) == Fmt(PyOr(PyGet(item.v, "place_id"), PyGet(item.v, "placeId")))

\* lines 149-151: one printed line per item of the slice, until an item that
\* is no object raises
RECURSIVE DisplayItems(_, _, _)
DisplayItems(slice, i, acc) ==
    IF i > Len(slice) THEN acc
    ELSE IF slice[i].t # "dict" THEN [acc EXCEPT !.exc = "AttributeError"]
    ELSE DisplayItems(slice, i + 1,
             [acc EXCEPT !.shown = Append(@, [n |-> i, item |-> slice[i],
                                              desc |-> ItemDescription(slice[i]),
                                              place |-> ItemPlaceId(slice[i])])])

\* items[:limit]
SliceTo(items, limit) ==
    SubSeq(items.v, 1, IF Len(items.v) < limit THEN Len(items.v) ELSE limit)

\* line 149 with one item more than the limit
DisplaySliceOffByOne(items) == SliceTo(items, DisplayLimit + 1)

\* line 149: items[:5]
DisplaySlice(items) == SliceTo(items, DisplayLimit)

summarize(data) ==
    LET sel == SelectItems(data)
        start == [NotSummarized EXCEPT !.done = TRUE]
    IN  IF sel.exc # "" THEN [start EXCEPT !.exc = sel.exc]
        ELSE LET items == sel.items
                 got == [start EXCEPT !.selected = TRUE, !.items = items]
             IN  IF items.t \in {"null", "int"} THEN [got EXCEPT !.exc = "TypeError"]
                 ELSE IF items.t = "dict"
                 THEN [got EXCEPT !.count = Cardinality(DOMAIN items.v), !.exc = "TypeError"]
                 ELSE IF items.t = "str"
                 THEN [got EXCEPT !.count = Len(items.v),
                                  !.exc = IF items.v = <<>> THEN "" ELSE "AttributeError"]
                 ELSE DisplayItems(DisplaySlice(items), 1, [got EXCEPT !.count = Len(items.v)])

(***************************************************************************)
(* Specification SpecSummarize: summarize on decoded response bodies.      *)
(***************************************************************************)
Text1(c) == JStr(<<c>>)

ItemX == JDict([description |-> Text1("X"), place_id |-> Text1("1")])
ItemY == JDict([description |-> Text1("Y")])
ItemM == JDict([mainText |-> Text1("M"), secondaryText |-> Text1("S"), placeId |-> Text1("3")])

Items == {ItemX, ItemY, ItemM}

RECURSIVE ListsUpTo(_, _)
ListsUpTo(S, n) ==
    IF n = 0 THEN {<<>>}
    ELSE LET shorter == ListsUpTo(S, n - 1)
         IN  shorter \cup {Append(l, x) : l \in {u \in shorter : Len(u) = n - 1}, x \in S}

\* a dict from the keys that are present: Absent marks a key left out
Absent == [t |-> "absent", v |-> <<>>]

DictOf(f) == JDict([k \in {x \in DOMAIN f : f[x] # Absent} |-> f[k]])

ShortLists == {JList(<<>>), JList(<<ItemX>>), JList(<<ItemY, ItemM>>)}

Nested ==
    {DictOf([predictions |-> p, results |-> r]) :
        p \in ShortLists \cup {Absent}, r \in ShortLists \cup {Absent}}

ShapeBodies ==
    {DictOf([predictions |-> p, results |-> r, data |-> d]) :
        p \in ShortLists \cup {Absent},
        r \in ShortLists \cup {Absent},
        d \in Nested \cup {Absent, JNull, JList(<<ItemX>>)}}

OtherBodies ==
    {JList(<<>>), JList(<<ItemX>>), JList(<<JStr(PredictionsText)>>),
     JStr(PredictionsText), JStr(<<"o", "k">>), JInt(1), JNull,
     JDict([raw |-> JStr(<<"<", "h", "t", "m", "l", ">">>)]),
     JDict([predictions |-> JNull]),
     JDict([results |-> JList(<<ItemX, Text1("z"), ItemY>>)])}

LongListBodies ==
    {JDict([predictions |-> JList(l)]) : l \in ListsUpTo(Items, MaxItems)}
        \cup {JDict([status |-> JStr(<<"O", "K">>), results |-> JList(l)]) :
                 l \in ListsUpTo({ItemX, ItemM}, MaxItems)}

SumBodies == ShapeBodies \cup OtherBodies \cup LongListBodies

InitSummarize ==
    /\ sumData \in SumBodies
    /\ sumOut = NotSummarized
    /\ EnvIdle /\ KeyIdle /\ ScanIdle /\ HttpIdle /\ RunIdle

Summarize ==
    /\ ~sumOut.done
    /\ sumOut' = summarize(sumData)
    /\ UNCHANGED <<sumData, envVars, keyVars, scanVars, httpVars, runVars>>

NextSummarize == Summarize

SpecSummarize == InitSummarize /\ [][NextSummarize]_vars

\* the selection rule of the specification
HasKey(body, k) == body.t = "dict" /\ k \in DOMAIN body.v

NonEmptyAt(d, k) == k \in DOMAIN d /\ PyTruthy(d[k])

RuleItems(body) ==
    IF HasKey(body, "predictions") THEN body.v["predictions"]
    ELSE IF HasKey(body, "results") THEN body.v["results"]
    ELSE IF HasKey(body, "data") /\ body.v["data"].t = "dict"
    THEN LET d == body.v["data"].v
         IN  IF NonEmptyAt(d, "predictions") THEN d["predictions"]
             ELSE IF NonEmptyAt(d, "results") THEN d["results"]
             ELSE JList(<<>>)
    ELSE JList(<<>>)

\* the bodies that match none of the three shapes
OtherShape(body) ==
    /\ ~HasKey(body, "predictions")
    /\ ~HasKey(body, "results")
    /\ ~(HasKey(body, "data") /\ body.v["data"].t = "dict")

\* C4: summarize selects the item list by first match (top-level
\* predictions, else top-level results, else the predictions or results of a
\* data object), and for every other decoded body the item list is empty,
\* the reported count is 0 and nothing fails.
C4_SelectionTotal ==
    sumOut.done =>
        /\ sumOut.selected => sumOut.items = RuleItems(sumData)
        /\ OtherShape(sumData) =>
               /\ sumOut.exc = ""
               /\ sumOut.selected /\ sumOut.items = JList(<<>>)
               /\ sumOut.count = 0

Digits == {"0", "1", "2", "3", "4", "5", "6", "7", "8", "9"}

DigitValue(c) ==
    CASE c = "0" -> 0 [] c = "1" -> 1 [] c = "2" -> 2 [] c = "3" -> 3 [] c = "4" -> 4
      [] c = "5" -> 5 [] c = "6" -> 6 [] c = "7" -> 7 [] c = "8" -> 8 [] c = "9" -> 9

\* first position at or after i that holds no whitespace (Len + 1 if none)
RECURSIVE SkipWs(_, _)
SkipWs(s, i) ==
    IF i <= Len(s) /\ s[i] \in Whitespace THEN SkipWs(s, i + 1) ELSE i

\* the digits of [1-9]\d* from position i on: [val, next]
RECURSIVE ScanDigits(_, _, _)
ScanDigits(s, i, acc) ==
    IF i <= Len(s) /\ s[i] \in Digits
    THEN ScanDigits(s, i + 1, 10 * acc + DigitValue(s[i]))
    ELSE [val |-> acc, next |-> i]

ScanFail == [ok |-> FALSE, val |-> JNull, next |-> 0]

\* the characters of a string whose opening quote is before position i, up
\* to the closing quote: [ok, val, next]; a control character ends it badly
RECURSIVE ScanString(_, _, _)
ScanString(s, i, acc) ==
    IF i > Len(s) \/ s[i] \in {"\n", "\t", "\r"} THEN ScanFail
    ELSE IF s[i] = "\"" THEN [ok |-> TRUE, val |-> JStr(acc), next |-> i + 1]
    ELSE ScanString(s, i + 1, Append(acc, s[i]))

\* the characters of a key as one string
RECURSIVE KeyName(_)
KeyName(chars) == IF chars = <<>> THEN "" ELSE Head(chars) \o KeyName(Tail(chars))

NullText == <<"n", "u", "l", "l">>

RECURSIVE ScanOnce(_, _)
RECURSIVE ScanArray(_, _, _)
RECURSIVE ScanObject(_, _, _)

\* scan_once: the value that starts at position i: [ok, val, next]
ScanOnce(s, i) ==
    IF i > Len(s) THEN ScanFail
    ELSE IF s[i] = "\"" THEN ScanString(s, i + 1, <<>>)
    ELSE IF s[i] = "{" THEN
        LET j == SkipWs(s, i + 1)
        IN  IF j <= Len(s) /\ s[j] = "}"
            THEN [ok |-> TRUE, val |-> JDict(EmptyDict), next |-> j + 1]
            ELSE ScanObject(s, j, EmptyDict)
    ELSE IF s[i] = "[" THEN
        LET j == SkipWs(s, i + 1)
        IN  IF j <= Len(s) /\ s[j] = "]"
            THEN [ok |-> TRUE, val |-> JList(<<>>), next |-> j + 1]
            ELSE ScanArray(s, j, <<>>)
    ELSE IF s[i] = "n" THEN
        IF i + 3 <= Len(s) /\ SubSeq(s, i, i + 3) = NullText
        THEN [ok |-> TRUE, val |-> JNull, next |-> i + 4] ELSE ScanFail
    ELSE IF s[i] = "0" THEN [ok |-> TRUE, val |-> JInt(0), next |-> i + 1]
    ELSE IF s[i] \in Digits THEN
        LET d == ScanDigits(s, i, 0)
        IN  [ok |-> TRUE, val |-> JInt(d.val), next |-> d.next]
    ELSE ScanFail

\* JSONArray's loop: a value, then "]" or "," and the next value
ScanArray(s, i, acc) ==
    LET v == ScanOnce(s, i)
    IN  IF ~v.ok THEN ScanFail
        ELSE LET j == SkipWs(s, v.next)
             IN  IF j > Len(s) THEN ScanFail
                 ELSE IF s[j] = "]"
                 THEN [ok |-> TRUE, val |-> JList(Append(acc, v.val)), next |-> j + 1]
                 ELSE IF s[j] = ","
                 THEN ScanArray(s, SkipWs(s, j + 1), Append(acc, v.val))
                 ELSE ScanFail

\* JSONObject's loop: "key" : value, then "}" or "," and the next pair
ScanObject(s, i, acc) ==
    IF i > Len(s) \/ s[i] # "\"" THEN ScanFail
    ELSE LET k == ScanString(s, i + 1, <<>>)
         IN  IF ~k.ok THEN ScanFail
             ELSE LET c == SkipWs(s, k.next)
                  IN  IF c > Len(s) \/ s[c] # ":" THEN ScanFail
                      ELSE LET v == ScanOnce(s, SkipWs(s, c + 1))
                           IN  IF ~v.ok THEN ScanFail
                               ELSE LET j   == SkipWs(s, v.next)
                                        now == DictSet(acc, KeyName(k.val.v), v.val)
                                    IN  IF j > Len(s) THEN ScanFail
                                        ELSE IF s[j] = "}"
                                        THEN [ok |-> TRUE, val |-> JDict(now), next |-> j + 1]
                                        ELSE IF s[j] = ","
                                        THEN ScanObject(s, SkipWs(s, j + 1), now)
                                        ELSE ScanFail

\* json.loads: the value, or JSONDecodeError
json_loads(s) ==
    LET v == ScanOnce(s, SkipWs(s, 1))
    IN  IF v.ok /\ SkipWs(s, v.next) = Len(s) + 1
        THEN [ok |-> TRUE, val |-> v.val]
        ELSE [ok |-> FALSE, val |-> JNull]

(***************************************************************************)
(* http_get and http_post_json (test_places_api.py:53-75).                 *)
(***************************************************************************)
RawEnvelope(body) == JDict([raw |-> JStr(body)])

\* lines 58-61 and 71-74 without the except clause
DecodeBodyUncaught(body) ==
    LET d == json_loads(body)
    IN  IF d.ok THEN [exc |-> "", data |-> d.val]
        ELSE [exc |-> "JSONDecodeError", data |-> JNull]

\* lines 58-61 and 71-74: try json.loads, except JSONDecodeError keep the text
DecodeBody(body) ==
    LET d == json_loads(body)
    IN  IF d.ok THEN [exc |-> "", data |-> d.val]
        ELSE [exc |-> "", data |-> RawEnvelope(body)]

\* the part of both functions after the request was built: urlopen, then
\* status, body and decoding
ReadResponse(in) ==
    IF in.kind # "response"
    THEN [kind |-> "raise", exc |-> in.kind, status |-> 0, data |-> JNull]
    ELSE LET d == DecodeBody(in.body)
         IN  IF d.exc # ""
             THEN [kind |-> "raise", exc |-> d.exc, status |-> 0, data |-> JNull]
             ELSE [kind |-> "return", exc |-> "", status |-> in.status, data |-> d.data]

http_get(in) == ReadResponse(in)

http_post_json(in) == ReadResponse(in)

(***************************************************************************)
(* Specification SpecHttp: both probes on every response body.             *)
(***************************************************************************)
BodyAlphabet == {"[", "]", ",", "0", "1", " "}

SampleHtml == <<"<", "h", "t", "m", "l", ">">>
SampleNested == <<"[", "[", "1", "0", "]", ",", " ", "[", "]", "]", "\n">>

BodyTexts == TextsUpTo(BodyAlphabet, MaxBodyLen) \cup {SampleHtml, SampleNested}

\* what urlopen can do: hand back a response, or raise
TransportFailures == {"URLError", "HTTPError", "timeout"}

HttpInputs ==
    {[kind |-> "response", status |-> 200, body |-> b] : b \in BodyTexts}
        \cup {[kind |-> "response", status |-> 204, body |-> b] : b \in {<<>>, SampleHtml, SampleNested}}
        \cup {[kind |-> k, status |-> 0, body |-> <<>>] : k \in TransportFailures}

InitHttp ==
    /\ httpIn \in HttpInputs
    /\ getResult = NoHttpResult
    /\ postResult = NoHttpResult
    /\ EnvIdle /\ KeyIdle /\ ScanIdle /\ SumIdle /\ RunIdle

HttpGet ==
    /\ getResult.kind = "none"
    /\ getResult' = http_get(httpIn)
    /\ UNCHANGED <<httpIn, postResult, envVars, keyVars, scanVars, sumVars, runVars>>

HttpPostJson ==
    /\ postResult.kind = "none"
    /\ postResult' = http_post_json(httpIn)
    /\ UNCHANGED <<httpIn, getResult, envVars, keyVars, scanVars, sumVars, runVars>>

NextHttp == HttpGet \/ HttpPostJson

SpecHttp == InitHttp /\ [][NextHttp]_vars

\* JSON validity stated on the whole text: a number, or a bracketed list of
\* valid texts separated by the commas that lie outside inner brackets
JsonTrim(s) ==
    LET solid == {i \in 1..Len(s) : s[i] \notin Whitespace}
    IN  IF solid = {} THEN <<>>
        ELSE SubSeq(s, CHOOSE i \in solid : \A j \in solid : i <= j,
                       CHOOSE i \in solid : \A j \in solid : i >= j)

IsNumberText(s) ==
    /\ s # <<>>
    /\ \A i \in 1..Len(s) : s[i] \in Digits
    /\ s[1] = "0" => Len(s) = 1

RECURSIVE Pow10(_)
Pow10(n) == IF n = 0 THEN 1 ELSE 10 * Pow10(n - 1)

RECURSIVE SumOver(_, _)
SumOver(f, S) ==
    IF S = {} THEN 0
    ELSE LET x == CHOOSE y \in S : TRUE IN f[x] + SumOver(f, S \ {x})

NumberValue(s) ==
    SumOver([i \in 1..Len(s) |-> DigitValue(s[i]) * Pow10(Len(s) - i)], 1..Len(s))

Depth(s, i) ==
    Cardinality({j \in 1..(i - 1) : s[j] = "["}) - Cardinality({j \in 1..(i - 1) : s[j] = "]"})

TopCommas(s) == {i \in 1..Len(s) : s[i] = "," /\ Depth(s, i) = 0}

\* the pieces of s between its top-level commas, in order
Pieces(s) ==
    LET cuts == Ascending(TopCommas(s) \cup {0, Len(s) + 1})
    IN  [k \in 1..(Len(cuts) - 1) |-> SubSeq(s, cuts[k] + 1, cuts[k + 1] - 1)]

RECURSIVE JsonOf(_)
JsonOf(s) ==
    LET u == JsonTrim(s)
    IN  IF IsNumberText(u) THEN [ok |-> TRUE, val |-> JInt(NumberValue(u))]
        ELSE IF Len(u) >= 2 /\ u[1] = "[" /\ u[Len(u)] = "]"
        THEN LET inner == SubSeq(u, 2, Len(u) - 1)
             IN  IF JsonTrim(inner) = <<>> THEN [ok |-> TRUE, val |-> JList(<<>>)]
                 ELSE LET ps == Pieces(inner)
                          vs == [k \in 1..Len(ps) |-> JsonOf(ps[k])]
                      IN  IF \A k \in 1..Len(ps) : vs[k].ok
                          THEN [ok |-> TRUE, val |-> JList([k \in 1..Len(ps) |-> vs[k].val])]
                          ELSE [ok |-> FALSE, val |-> JNull]
        ELSE [ok |-> FALSE, val |-> JNull]

EnvelopeAsClaimed(result) ==
    httpIn.kind = "response" /\ result.kind # "none" =>
        /\ result.kind = "return"
        /\ result.status = httpIn.status
        /\ result.data = IF JsonOf(httpIn.body).ok THEN JsonOf(httpIn.body).val
                         ELSE RawEnvelope(httpIn.body)

ExcBases(exc) ==
    CASE exc = "ConnectionError" -> {"ConnectionError", "RequestException", "Exception"}
      [] exc = "ConnectTimeout"  -> {"ConnectionError", "Timeout", "RequestException", "Exception"}
      [] exc = "ReadTimeout"     -> {"Timeout", "RequestException", "Exception"}
      [] exc = "KeyboardInterrupt" -> {"BaseException"}
      [] OTHER                   -> {"Exception"}

Rep(label, detail) == [label |-> label, detail |-> detail, data |-> <<>>]

RepData(label, data) == [label |-> label, detail |-> "", data |-> data]

\* the result of one function of a script
Ran(value, printed, report) ==
    [raised |-> "", ret |-> value, out |-> printed \o report, report |-> report]

Propagates(exc, printed) ==
    [raised |-> exc, ret |-> JNull, out |-> printed, report |-> <<>>]

NoBody == [shape |-> "invalid", success |-> FALSE, devices |-> <<>>, credits |-> -1, messages |-> 0]

Raises(exc) == [kind |-> "exc", exc |-> exc, status |-> 0, body |-> NoBody]

Responds(status, body) == [kind |-> "response", exc |-> "", status |-> status, body |-> body]

DictBody(success, devices, credits, messages) ==
    [shape |-> "dict", success |-> success, devices |-> devices,
     credits |-> credits, messages |-> messages]

(***************************************************************************)
(* test_sms_api.py                                                         *)
(***************************************************************************)
DEFAULT_DEVICE == 2
DEFAULT_SIM_SLOT == 1

\* Python's == between an id of the response and an int: equal only to the
\* same number
IdEquals(id, n) == id.t = "int" /\ id.v = n

\* line 91 with the SIM slot in the place of the device id
ConfiguredDevicePresentBySlot(ids) == \E i \in 1..Len(ids) : IdEquals(ids[i], DEFAULT_SIM_SLOT)

\* line 91: DEFAULT_DEVICE in device_ids
ConfiguredDevicePresent(ids) == \E i \in 1..Len(ids) : IdEquals(ids[i], DEFAULT_DEVICE)

\* a variant that looks at the first SIM whatever the slot
SimCheckFirstSim(slot, device) ==
    IF PyTruthy(PyGet(device, "sim1")) THEN <<Rep("sim-details", "sim1")>>
    ELSE <<Rep("error", "SIM Slot not found on this device!")>>

\* lines 101-110 for a configured slot: target_device.get('sim1') and
\* target_device.get('sim2') by their truth value
SimCheckFor(slot, device) ==
    IF slot = 0 /\ PyTruthy(PyGet(device, "sim1")) THEN <<Rep("sim-details", "sim1")>>
    ELSE IF slot = 1 /\ PyTruthy(PyGet(device, "sim2")) THEN <<Rep("sim-details", "sim2")>>
    ELSE <<Rep("error", "SIM Slot not found on this device!")>>

\* lines 101-110 with the configured slot
SimCheck(device) == SimCheckFor(DEFAULT_SIM_SLOT, device)

\* lines 86-113: the configuration check
ConfigurationCheck(devices) ==
    LET ids == [i \in 1..Len(devices) |-> devices[i].id]
    IN  IF ConfiguredDevicePresent(ids)
        THEN LET matches == {i \in 1..Len(devices) : IdEquals(devices[i].id, DEFAULT_DEVICE)}
                 \* line 95: next(..., None)
                 first == CHOOSE i \in matches : \A j \in matches : i <= j
             IN  <<Rep("ok", "Device ID EXISTS in the SMS server!")>>
                     \o (IF matches = {} THEN <<>>
                         ELSE <<Rep("print", "Your configured device")>> \o SimCheck(devices[first]))
        ELSE <<Rep("error", "Device ID NOT FOUND!"), RepData("available-ids", ids)>>

\* test_get_devices (lines 33-133)
test_get_devices(o) ==
    LET printed == <<Rep("header", "TEST 1: GET AVAILABLE DEVICES"), Rep("info", "Requesting")>>
        status  == <<Rep("info", "Response Status")>>
    IN  IF o.kind = "exc" THEN
            IF "ConnectionError" \in ExcBases(o.exc)
            THEN Ran(JNull, printed, <<Rep("error", "Connection failed to"),
                                       Rep("error", "Make sure you have internet access")>>)
            ELSE IF "Timeout" \in ExcBases(o.exc)
            THEN Ran(JNull, printed, <<Rep("error", "Request timed out (15 seconds)")>>)
            ELSE IF "Exception" \in ExcBases(o.exc)
            THEN Ran(JNull, printed, <<Rep("error", "Unexpected error: " \o o.exc)>>)
            ELSE Propagates(o.exc, printed)
        ELSE IF o.status # 200
        THEN Ran(JNull, printed, status \o <<Rep("error", "HTTP Error: " \o ToString(o.status)),
                                             Rep("print", "Response text")>>)
        ELSE IF o.body.shape = "invalid"
        THEN Ran(JNull, printed, status \o <<Rep("error", "Unexpected error: JSONDecodeError")>>)
        ELSE IF o.body.shape # "dict"
        THEN Ran(JNull, printed, status \o <<Rep("error", "Unexpected error: AttributeError")>>)
        ELSE IF ~o.body.success
        THEN Ran(JNull, printed, status \o <<Rep("error", "API Error")>>)
        ELSE Ran(JList(o.body.devices), printed,
                 status \o <<Rep("ok", "Successfully retrieved devices!")>>
                     \o [i \in 1..Len(o.body.devices) |-> RepData("device", <<o.body.devices[i]>>)]
                     \o ConfigurationCheck(o.body.devices))

\* test_get_balance (lines 217-257)
test_get_balance(o) ==
    LET printed == <<Rep("header", "TEST 3: GET MESSAGE CREDITS BALANCE"), Rep("info", "Requesting balance")>>
    IN  IF o.kind = "exc" THEN
            IF "Exception" \in ExcBases(o.exc)
            THEN Ran(JNull, printed, <<Rep("error", "Error getting balance: " \o o.exc)>>)
            ELSE Propagates(o.exc, printed)
        ELSE IF o.status # 200
        THEN Ran(JNull, printed, <<Rep("error", "HTTP Error: " \o ToString(o.status))>>)
        ELSE IF o.body.shape = "invalid"
        THEN Ran(JNull, printed, <<Rep("error", "Error getting balance: JSONDecodeError")>>)
        ELSE IF o.body.shape # "dict"
        THEN Ran(JNull, printed, <<Rep("error", "Error getting balance: AttributeError")>>)
        ELSE IF ~o.body.success
        THEN Ran(JNull, printed, <<Rep("error", "API Error")>>)
        ELSE IF o.body.credits < 0
        THEN Ran(JNull, printed, <<Rep("ok", "Message Credits: UNLIMITED")>>)
        ELSE Ran(JInt(o.body.credits), printed, <<Rep("ok", "Message Credits Remaining")>>)

\* str.lower(), on the letters an answer is made of
LowerChar(c) ==
    CASE c = "Y" -> "y"
      [] c = "N" -> "n"
      [] c = "E" -> "e"
      [] c = "S" -> "s"
      [] OTHER   -> c

lower(s) == [i \in 1..Len(s) |-> LowerChar(s[i])]

\* line 163 accepting every answer that begins with 'y'
SendConfirmedByPrefix(answer) == startswith(lower(strip(answer)), <<"y">>)

\* lines 161-163: confirm = input().strip().lower(); confirm == 'y'
SendConfirmed(answer) == lower(strip(answer)) = <<"y">>

\* test_send_single_message up to the prompt (lines 135-165): what input()
\* gives is an answer, EOF or an interrupt
SendPrompt(a) ==
    LET printed == <<Rep("header", "TEST 2: SEND SINGLE SMS MESSAGE"), Rep("info", "Payload"),
                     Rep("prompt", "Do you want to send this test SMS? (y/n)")>>
    IN  IF a.kind = "KeyboardInterrupt" THEN Propagates("KeyboardInterrupt", printed)
        ELSE IF a.kind = "EOF"
        THEN Ran(JNull, printed, <<Rep("error", "Error sending message: EOFError"),
                                   Rep("traceback", "EOFError")>>)
        ELSE IF ~SendConfirmed(a.text)
        THEN Ran(JNull, printed, <<Rep("info", "Test cancelled by user")>>)
        ELSE Ran(JNull, printed, <<>>)

\* test_send_single_message from the request on (lines 167-215)
SendRequest(o) ==
    LET status == <<Rep("info", "Response Status")>>
    IN  IF o.kind = "exc" THEN
            IF "Exception" \in ExcBases(o.exc)
            THEN Ran(JNull, <<>>, <<Rep("error", "Error sending message: " \o o.exc),
                                    Rep("traceback", o.exc)>>)
            ELSE Propagates(o.exc, <<>>)
        ELSE IF o.status # 200
        THEN Ran(JNull, <<>>, status \o <<Rep("error", "HTTP Error: " \o ToString(o.status)),
                                          Rep("print", "Response text")>>)
        ELSE IF o.body.shape = "invalid"
        THEN Ran(JNull, <<>>, status \o <<Rep("error", "Error sending message: JSONDecodeError"),
                                          Rep("traceback", "JSONDecodeError")>>)
        ELSE IF o.body.shape # "dict"
        THEN Ran(JNull, <<>>, status \o <<Rep("print", "Full Response"),
                                          Rep("error", "Error sending message: AttributeError"),
                                          Rep("traceback", "AttributeError")>>)
        ELSE IF ~o.body.success
        THEN Ran(JNull, <<>>, status \o <<Rep("print", "Full Response"), Rep("error", "API Error")>>)
        ELSE IF o.body.messages = 0
        THEN Ran(JNull, <<>>, status \o <<Rep("print", "Full Response"),
                                          Rep("ok", "Message sent successfully!")>>)
        ELSE Ran(JDict([ID |-> JInt(1)]), <<>>,
                 status \o <<Rep("print", "Full Response"), Rep("ok", "Message sent successfully!"),
                             Rep("print", "Message Details")>>)

\* the top-level try/except of the two SMS scripts (test_sms_api.py:348-357,
\* analyze_sms_config.py:290-299)
SmsTopLevel(exc) ==
    IF exc = "KeyboardInterrupt"
    THEN [status |-> 0, out |-> <<Rep("notice", "interrupted by user")>>]
    ELSE [status |-> 1, out |-> <<Rep("error", "Unexpected error: " \o exc), Rep("traceback", exc)>>]

(***************************************************************************)
(* analyze_sms_config.py                                                   *)
(***************************************************************************)
SMS_SERVER_URL ==
    <<"S", "M", "S", "_", "S", "E", "R", "V", "E", "R", "_", "U", "R", "L">>

SMS_API_KEY ==
    <<"S", "M", "S", "_", "A", "P", "I", "_", "K", "E", "Y">>

SMS_DEFAULT_DEVICE ==
    <<"S", "M", "S", "_", "D", "E", "F", "A", "U", "L", "T", "_", "D", "E", "V", "I",
      "C", "E">>

SMS_DEFAULT_SIM_SLOT ==
    <<"S", "M", "S", "_", "D", "E", "F", "A", "U", "L", "T", "_", "S", "I", "M", "_",
      "S", "L", "O", "T">>

SMS_ENABLE_NOTIFICATIONS ==
    <<"S", "M", "S", "_", "E", "N", "A", "B", "L", "E", "_", "N", "O", "T", "I", "F",
      "I", "C", "A", "T", "I", "O", "N", "S">>

SmsKeys ==
    {"SMS_SERVER_URL", "SMS_API_KEY", "SMS_DEFAULT_DEVICE", "SMS_DEFAULT_SIM_SLOT",
     "SMS_ENABLE_NOTIFICATIONS"}

SmsKeyText(k) ==
    CASE k = "SMS_SERVER_URL"           -> SMS_SERVER_URL
      [] k = "SMS_API_KEY"              -> SMS_API_KEY
      [] k = "SMS_DEFAULT_DEVICE"       -> SMS_DEFAULT_DEVICE
      [] k = "SMS_DEFAULT_SIM_SLOT"     -> SMS_DEFAULT_SIM_SLOT
      [] k = "SMS_ENABLE_NOTIFICATIONS" -> SMS_ENABLE_NOTIFICATIONS

\* the default of lines 59-63
NOT_SET == <<"N", "O", "T", " ", "S", "E", "T">>

\* lines 79-96: one warning for each required variable that is not set
ConfigWarnings(sms) ==
    LET warn(k) == IF sms[k] = NOT_SET THEN <<Rep("warning", k \o " is not set")>> ELSE <<>>
        all == warn("SMS_SERVER_URL") \o warn("SMS_API_KEY")
                   \o warn("SMS_DEFAULT_DEVICE") \o warn("SMS_DEFAULT_SIM_SLOT")
    IN  IF all = <<>> THEN <<Rep("ok", "All required variables are set")>> ELSE all

\* analyze_sms_configuration (lines 49-98): None, or the five settings
analyze_sms_configuration(file) ==
    LET read    == AnalyzerReadEnv(file)
        printed == <<Rep("header", "SMS CONFIGURATION ANALYSIS")>>
    IN  IF ~read.ok
        THEN Ran(JNull, printed, <<Rep("error", ".env file not found"),
                                   Rep("error", "Failed to read .env file")>>)
        ELSE IF read.cfg = EmptyDict
        THEN Ran(JNull, printed, <<Rep("error", "Failed to read .env file")>>)
        ELSE LET sms == [k \in SmsKeys |->
                            IF SmsKeyText(k) \in DOMAIN read.cfg
                            THEN read.cfg[SmsKeyText(k)] ELSE NOT_SET]
             IN  Ran(JDict([k \in SmsKeys |-> JStr(sms[k])]), printed,
                     <<Rep("info", "Environment Variables:")>> \o ConfigWarnings(sms))

\* requests.post refuses a URL without a scheme before anything is sent
HttpScheme == <<"h", "t", "t", "p", ":", "/", "/">>
HttpsScheme == <<"h", "t", "t", "p", "s", ":", "/", "/">>

UrlUsable(url) == startswith(url, HttpScheme) \/ startswith(url, HttpsScheme)

\* test_sms_api_devices (lines 155-234)
test_sms_api_devices(api_key, server_url, o) ==
    LET header  == <<Rep("header", "SMS API DEVICE TEST")>>
        printed == header \o <<Rep("info", "Testing SMS API at"), Rep("info", "API Key"),
                               Rep("info", "Fetching available devices from SMS server...")>>
        status  == <<Rep("print", "Response Status")>>
        shown   == status \o <<Rep("ok", "API response received"), Rep("print", "Response Data")>>
    IN  IF api_key = NOT_SET
        THEN Ran(JNull, header, <<Rep("error", "Cannot test API: SMS_API_KEY is not configured")>>)
        ELSE IF o.kind = "exc" THEN
            IF "ConnectionError" \in ExcBases(o.exc)
            THEN Ran(JNull, printed, <<Rep("error", "Connection failed to"),
                                       Rep("warning", "Make sure the SMS server URL is correct")>>)
            ELSE IF "Timeout" \in ExcBases(o.exc)
            THEN Ran(JNull, printed, <<Rep("error", "Request timed out (15 seconds)")>>)
            ELSE IF "Exception" \in ExcBases(o.exc)
            THEN Ran(JNull, printed, <<Rep("error", "Unexpected error: " \o o.exc)>>)
            ELSE Propagates(o.exc, printed)
        ELSE IF o.status # 200
        THEN Ran(JNull, printed, status \o <<Rep("error", "HTTP Error: " \o ToString(o.status)),
                                             Rep("print", "Response")>>)
        ELSE IF o.body.shape = "invalid"
        THEN Ran(JNull, printed, status \o <<Rep("error", "Invalid JSON response"),
                                             Rep("print", "Response text")>>)
        ELSE IF o.body.shape # "dict"
        THEN Ran(JNull, printed, shown \o <<Rep("error", "Unexpected error: AttributeError")>>)
        ELSE IF ~o.body.success
        THEN Ran(JNull, printed, shown \o <<Rep("error", "API Error")>>)
        ELSE Ran(JNull, printed,
                 shown \o [i \in 1..Len(o.body.devices) |-> RepData("device", <<o.body.devices[i]>>)]
                       \o (IF o.body.devices # <<>>
                           THEN <<RepData("recommendation", <<o.body.devices[1].id>>)>>
                           ELSE <<Rep("error", "No devices found!")>>))

\* line 256: proceed.lower() == 'y'
ProceedConfirmed(answer) == lower(answer) = <<"y">>

\* line 253: sms_config and sms_config['SMS_API_KEY'] != 'NOT SET'
ApiTestOffered(sms_config) ==
    PyTruthy(sms_config) /\ sms_config.v["SMS_API_KEY"] # JStr(NOT_SET)

(***************************************************************************)
(* test_places_api.py: the command line, the requests and the main flow.   *)
(***************************************************************************)
\* float(): spaces around, a sign, digits with at most one point
FloatBody(s) ==
    LET t == strip(s)
    IN  IF t # <<>> /\ t[1] \in {"+", "-"} THEN Tail(t) ELSE t

IsFloatText(s) ==
    LET b == FloatBody(s)
    IN  /\ \A i \in 1..Len(b) : b[i] \in Digits \cup {"."}
        /\ \E i \in 1..Len(b) : b[i] \in Digits
        /\ Cardinality({i \in 1..Len(b) : b[i] = "."}) <= 1

RECURSIVE DigitsValue(_, _)
DigitsValue(s, acc) ==
    IF s = <<>> THEN acc ELSE DigitsValue(Tail(s), 10 * acc + DigitValue(Head(s)))

RECURSIVE DropTrailingZeros(_)
DropTrailingZeros(s) ==
    IF s # <<>> /\ s[Len(s)] = "0" THEN DropTrailingZeros(SubSeq(s, 1, Len(s) - 1)) ELSE s

\* the number a float text denotes: sign, whole part, decimals
FloatValue(s) ==
    LET b     == FloatBody(s)
        dot   == find(b, ".")
        whole == IF dot = 0 THEN b ELSE SubSeq(b, 1, dot - 1)
        frac  == IF dot = 0 THEN <<>> ELSE SubSeq(b, dot + 1, Len(b))
    IN  [neg   |-> strip(s)[1] = "-",
         whole |-> DigitsValue(whole, 0),
         frac  |-> DropTrailingZeros(frac)]

\* a variant that returns the two numbers in the other order
parse_location_lng_first(loc) ==
    LET parts == split(loc, ",")
    IN  IF Len(parts) = 2 /\ IsFloatText(parts[1]) /\ IsFloatText(parts[2])
        THEN [kind |-> "return", lat |-> FloatValue(parts[2]), lng |-> FloatValue(parts[1])]
        ELSE [kind |-> "SystemExit", lat |-> FloatValue(<<"0">>), lng |-> FloatValue(<<"0">>)]

\* parse_location (lines 154-159); float() is modelled for texts of blanks,
\* signs, digits and points, and refuses every other character of the
\* alphabets used here
parse_location(loc) ==
    LET parts == split(loc, ",")
    IN  IF Len(parts) = 2 /\ IsFloatText(parts[1]) /\ IsFloatText(parts[2])
        THEN [kind |-> "return", lat |-> FloatValue(parts[1]), lng |-> FloatValue(parts[2])]
        ELSE [kind |-> "SystemExit", lat |-> FloatValue(<<"0">>), lng |-> FloatValue(<<"0">>)]

\* an HTTP request as the far end sees it
Req(method, endpoint, fields, key) ==
    [method |-> method, endpoint |-> endpoint, fields |-> fields, key |-> key]

\* the requests of lines 78-133
do_google_autocomplete(key) ==
    Req("GET", "maps.googleapis.com/maps/api/place/autocomplete/json",
        {"input", "key", "language", "components", "types", "location", "radius", "strictbounds"},
        key)

do_google_textsearch(key) ==
    Req("GET", "maps.googleapis.com/maps/api/place/textsearch/json",
        {"query", "key", "language", "location", "radius"}, key)

do_backend_autocomplete ==
    Req("POST", "/places/autocomplete",
        {"query", "language", "components", "location", "radius"}, <<>>)

do_backend_textsearch ==
    Req("POST", "/places/textsearch", {"query", "language", "location", "radius"}, <<>>)

\* summarize's output for one probe (lines 137-151): the title and the
\* status, the item count once the items were selected
ProbeShown(title, status, s) ==
    <<Rep("title", title), Rep("status", ToString(status))>>
        \o (IF s.count >= 0 THEN <<RepData("items", <<s>>)>> ELSE <<>>)

ProbeSummarized(title, status, s) ==
    IF s.exc # "" THEN Propagates(s.exc, ProbeShown(title, status, s))
    ELSE Ran(JNull, <<>>, ProbeShown(title, status, s))

ProbeAnswered(title, r) ==
    IF r.kind = "raise" THEN Propagates(r.exc, <<>>)
    ELSE ProbeSummarized(title, r.status, summarize(r.data))

\* one probe of main (lines 179-192): the call, then summarize
PlacesProbe(title, in, backend) ==
    ProbeAnswered(title, IF backend THEN http_post_json(in) ELSE http_get(in))

\* lines 195-196: nothing catches what main raises; the interpreter prints
\* the message of a SystemExit, or the traceback, and an interrupt ends the
\* process by SIGINT (status 130 in a shell)
Uncaught(exc) ==
    IF exc = "SystemExit" THEN [status |-> 1, out |-> <<Rep("stderr", "SystemExit message")>>]
    ELSE IF exc = "KeyboardInterrupt"
    THEN [status |-> 130, out |-> <<Rep("traceback", exc)>>]
    ELSE [status |-> 1, out |-> <<Rep("traceback", exc)>>]

(***************************************************************************)
(* Specification SpecRun: one run of one of the three scripts, from the    *)
(* start of the process to its exit.                                       *)
(***************************************************************************)
Scripts == {"test_sms_api", "analyze_sms_config", "test_places_api"}

\* test_sms_api.py:15
API_KEY ==
    <<"3", "3", "4", "7", "2", "0", "5", "c", "a", "1", "a", "5", "d", "e", "e", "b",
      "5", "7", "8", "a", "d", "3", "b", "2", "4", "e", "7", "9", "7", "0", "5", "c",
      "f", "c", "d", "a", "3", "8", "f", "f">>

\* a SIM as the server describes it, and a SIM described by an empty object
SimCard == JDict([number |-> Text1("9"), operator |-> Text1("G")])

EmptySim == JDict(EmptyDict)

\* a device of the listing: its id and the SIMs it names
Device(id, sim1, sim2) ==
    [k \in {"id"} \cup (IF sim1 = Absent THEN {} ELSE {"sim1"})
                  \cup (IF sim2 = Absent THEN {} ELSE {"sim2"}) |->
        CASE k = "id"   -> id
          [] k = "sim1" -> sim1
          [] k = "sim2" -> sim2]

SampleDevices ==
    {Device(JInt(1), SimCard, SimCard), Device(JInt(2), SimCard, SimCard),
     Device(JInt(2), SimCard, Absent), Device(JInt(2), Absent, EmptySim),
     Device(JStr(<<"2">>), Absent, SimCard)}

DeviceLists == ListsUpTo(SampleDevices, MaxDevices)

\* what the SMS server or the transport can do to any request
SmsFailures ==
    {Raises(e) : e \in {"ConnectionError", "ConnectTimeout", "ReadTimeout", "KeyboardInterrupt"}}
        \cup {Responds(404, NoBody), Responds(500, NoBody), Responds(200, NoBody),
              Responds(200, [NoBody EXCEPT !.shape = "list"]),
              Responds(200, DictBody(FALSE, <<>>, -1, 0))}

DeviceOutcomes == SmsFailures \cup {Responds(200, DictBody(TRUE, l, -1, 0)) : l \in DeviceLists}

BalanceOutcomes ==
    SmsFailures \cup {Responds(200, DictBody(TRUE, <<>>, c, 0)) : c \in {-1, 7}}

SendOutcomes ==
    SmsFailures \cup {Responds(200, DictBody(TRUE, <<>>, -1, m)) : m \in {0, 1}}

\* what the operator can do at a prompt
AnswerAlphabet == {"y", "Y", "n", " "}

SampleYes == <<"y", "e", "s">>
SamplePaddedY == <<"\t", "Y", " ", " ">>

Answers == TextsUpTo(AnswerAlphabet, MaxAnswerLen) \cup {SampleYes, SamplePaddedY}

PromptInputs ==
    {[kind |-> "answer", text |-> a] : a \in Answers}
        \cup {[kind |-> k, text |-> <<>>] : k \in {"EOF", "KeyboardInterrupt"}}

\* the condition a call of requests.post met
SmsCond(o) ==
    IF o.kind = "exc"
    THEN IF o.exc \in {"ConnectTimeout", "ReadTimeout"} THEN "timeout"
         ELSE IF o.exc = "ConnectionError" THEN "refused"
         ELSE "other"
    ELSE IF o.status # 200 THEN "non200" ELSE "ok"

\* the requests of test_sms_api.py (lines 38-51, 140-172, 222-234)
GetDevicesRequest == Req("POST", "/services/get-devices.php", {"key"}, API_KEY)

BalanceRequest == Req("POST", "/services/send.php", {"key"}, API_KEY)

SendMessageRequest ==
    Req("POST", "/services/send.php",
        {"key", "number", "message", "devices", "type", "prioritize"}, API_KEY)

\* the .env files of the analyzer's runs
EnvComplete ==
    <<"S", "M", "S", "_", "S", "E", "R", "V", "E", "R", "_", "U", "R", "L", "=", "h",
      "t", "t", "p", "s", ":", "/", "/", "s", "\n", "S", "M", "S", "_", "A", "P", "I",
      "_", "K", "E", "Y", "=", "k", "\n", "S", "M", "S", "_", "D", "E", "F", "A", "U",
      "L", "T", "_", "D", "E", "V", "I", "C", "E", "=", "2", "\n", "S", "M", "S", "_",
      "D", "E", "F", "A", "U", "L", "T", "_", "S", "I", "M", "_", "S", "L", "O", "T",
      "=", "1", "\n", "S", "M", "S", "_", "E", "N", "A", "B", "L", "E", "_", "N", "O",
      "T", "I", "F", "I", "C", "A", "T", "I", "O", "N", "S", "=", "t", "r", "u", "e",
      "\n">>

EnvKeyOnly ==
    <<"S", "M", "S", "_", "A", "P", "I", "_", "K", "E", "Y", "=", "k", "\n">>

EnvUrlOnly ==
    <<"S", "M", "S", "_", "S", "E", "R", "V", "E", "R", "_", "U", "R", "L", "=", "h",
      "t", "t", "p", "s", ":", "/", "/", "s", "\n">>

EnvKeyNotSet ==
    <<"S", "M", "S", "_", "A", "P", "I", "_", "K", "E", "Y", "=", "N", "O", "T", " ",
      "S", "E", "T", "\n">>

AnalyzerEnvFiles ==
    {[exists |-> TRUE, text |-> x] : x \in {EnvComplete, EnvKeyOnly, EnvUrlOnly, EnvKeyNotSet, SampleComment, <<>>}}
        \cup {MissingFile}

AnalyzerSrcFiles ==
    {MissingFile,
     [exists |-> TRUE, text |-> SampleHardcodedLine \o <<"\n">> \o SampleTemplatedLine]}

\* the command lines and the responses of the Places tester's runs
DefaultLocation ==
    <<"1", "4", ".", "5", "9", "9", "5", ",", "1", "2", "0", ".", "9", "8", "4", "2">>

SignedLocation ==
    <<" ", "-", "1", ".", "5", "0", " ", ",", " ", "+", "2", ".", " ">>

ThreePartLocation ==
    <<"1", ",", "2", ",", "3">>

WordLocation ==
    <<"x", ",", "1">>

Locations == {DefaultLocation, SignedLocation, ThreePartLocation, WordLocation}

PlacesArgs ==
    {[mode |-> m, backend |-> b, location |-> l] :
        m \in {"autocomplete", "textsearch", "both"}, b \in BOOLEAN, l \in Locations}

\* the sources of the API key: --key absent, empty or given; the variable
\* unset or set; the .env file missing, or holding the key with a value or
\* with none
PlacesCliKeys == {NoValue, [set |-> TRUE, v |-> <<>>], [set |-> TRUE, v |-> <<"c">>]}

PlacesEnvKeys == {NoValue, [set |-> TRUE, v |-> <<"e">>]}

PlacesEnvFiles ==
    {MissingFile,
     [exists |-> TRUE, text |-> KeyLine(<<"f">>)],
     [exists |-> TRUE, text |-> KeyLine(<<>>)]}

PredictionsBody ==
    <<"{", "\"", "p", "r", "e", "d", "i", "c", "t", "i", "o", "n", "s", "\"", ":", " ",
      "[", "{", "\"", "d", "e", "s", "c", "r", "i", "p", "t", "i", "o", "n", "\"", ":",
      " ", "\"", "X", "\"", ",", " ", "\"", "p", "l", "a", "c", "e", "_", "i", "d",
      "\"", ":", " ", "\"", "1", "\"", "}", "]", "}">>

ResultsBody ==
    <<"{", "\"", "r", "e", "s", "u", "l", "t", "s", "\"", ":", "[", "{", "\"", "d",
      "e", "s", "c", "r", "i", "p", "t", "i", "o", "n", "\"", ":", "\"", "Y", "\"",
      "}", "]", ",", "\"", "s", "t", "a", "t", "u", "s", "\"", ":", "\"", "O", "K",
      "\"", "}">>

NestedBody ==
    <<"{", "\"", "d", "a", "t", "a", "\"", ":", "{", "\"", "p", "r", "e", "d", "i",
      "c", "t", "i", "o", "n", "s", "\"", ":", "[", "{", "\"", "m", "a", "i", "n", "T",
      "e", "x", "t", "\"", ":", "\"", "M", "\"", ",", "\"", "p", "l", "a", "c", "e",
      "I", "d", "\"", ":", "\"", "3", "\"", "}", "]", "}", "}">>

PlacesBodies ==
    {PredictionsBody, ResultsBody, NestedBody, SampleHtml, SampleNested, NullText}

\* what urlopen can do in a run: a 2xx response, HTTPError for another
\* status, URLError or TimeoutError for the transport
UrlopenFailures ==
    {"HTTPError", "URLError: Connection refused", "URLError: timed out", "TimeoutError"}

PlacesInputs ==
    {[kind |-> "response", status |-> 200, body |-> b] : b \in PlacesBodies}
        \cup {[kind |-> "response", status |-> 204, body |-> <<>>]}
        \cup {[kind |-> k, status |-> 0, body |-> <<>>] : k \in UrlopenFailures}

\* the condition a call of urlopen met
UrlCond(in) ==
    IF in.kind \in {"URLError: timed out", "TimeoutError"} THEN "timeout"
    ELSE IF in.kind = "URLError: Connection refused" THEN "refused"
    ELSE IF in.kind = "HTTPError" \/ in.status # 200 THEN "non200"
    ELSE "ok"

InitRun ==
    /\ script \in Scripts
    /\ pc = "start" /\ out = <<>> /\ reqs = <<>> /\ exitStatus = -1 /\ cause = ""
    /\ confirm = NoAnswer /\ ret = JNull /\ lastCall = NoCall
    /\ CASE script = "test_sms_api" ->
               /\ envFile = MissingFile /\ srcFile = MissingFile
               /\ args = NoArgs /\ cliKey = NoValue /\ envVar = NoValue
         [] script = "analyze_sms_config" ->
               /\ envFile \in AnalyzerEnvFiles /\ srcFile \in AnalyzerSrcFiles
               /\ args = NoArgs /\ cliKey = NoValue /\ envVar = NoValue
         [] script = "test_places_api" ->
               /\ envFile \in PlacesEnvFiles
               /\ srcFile = MissingFile
               /\ args \in PlacesArgs
               /\ cliKey \in PlacesCliKeys
               /\ envVar \in PlacesEnvKeys
    /\ keyResult = NoKeyResult
    /\ placesConfig = NotRead /\ analyzerConfig = NotRead
    /\ analyzerScan = NotScanned /\ testerScan = NotScanned
    /\ SumIdle /\ HttpIdle

\* the process ends
Exits(status, why, printed) ==
    /\ pc' = "exited"
    /\ exitStatus' = status
    /\ cause' = why
    /\ out' = out \o printed

\* main goes on to its next step
Continues(next, printed) ==
    /\ pc' = next
    /\ out' = out \o printed
    /\ UNCHANGED <<exitStatus, cause>>

\* what was raised reaches the top-level handlers of an SMS script
RaisedToSmsTopLevel(exc, printed) ==
    LET top == SmsTopLevel(exc)
    IN  Exits(top.status, exc, printed \o top.out)

\* what was raised reaches no handler
RaisedUncaught(exc, printed) ==
    LET top == Uncaught(exc)
    IN  Exits(top.status, exc, printed \o top.out)

\* test_places_api.py line 49: the message of resolve_api_key's SystemExit
KeyNotFoundMessage ==
    "GOOGLE_MAPS_API_KEY not found. Provide --key, set env var, or put it in .env"

\* test_places_api.py line 159: the message of parse_location's SystemExit
LocationUsageMessage ==
    "Invalid --location format. Use \"lat,lng\" e.g. 14.5995,120.9842"

\* SystemExit(message) reaches no handler (lines 195-196): the interpreter
\* prints the message on stderr and the process ends with status 1
RaisedSystemExit(message) ==
    Exits(Uncaught("SystemExit").status, "SystemExit", <<Rep("stderr", message)>>)

\* test_sms_api.py: lines 342-346 and the banner of main (lines 296-304)
TesterPrologue ==
    /\ script = "test_sms_api" /\ pc = "start"
    /\ Continues("devices", <<Rep("banner", "ParkTayo SMS API Direct Tester")>>)
    /\ UNCHANGED <<reqs, confirm, ret, args, lastCall, script>>
    /\ UNCHANGED <<envVars, keyVars, scanVars, sumVars, httpVars>>

\* main, lines 307-311
TesterGetDevices(o) ==
    /\ script = "test_sms_api" /\ pc = "devices"
    /\ LET r == test_get_devices(o)
       IN  /\ reqs' = Append(reqs, GetDevicesRequest)
           /\ lastCall' = [call |-> "devices", cond |-> SmsCond(o), report |-> r.report, o |-> o]
           /\ ret' = r.ret
           /\ IF r.raised # "" THEN RaisedToSmsTopLevel(r.raised, r.out)
              ELSE IF ~PyTruthy(r.ret)
              THEN Exits(0, "return",
                         r.out \o <<Rep("error", "Cannot proceed without device information")>>)
              ELSE Continues("balance", r.out)
    /\ UNCHANGED <<confirm, args, script>>
    /\ UNCHANGED <<envVars, keyVars, scanVars, sumVars, httpVars>>

\* main, line 314
TesterGetBalance(o) ==
    /\ script = "test_sms_api" /\ pc = "balance"
    /\ LET r == test_get_balance(o)
       IN  /\ reqs' = Append(reqs, BalanceRequest)
           /\ lastCall' = [call |-> "balance", cond |-> SmsCond(o), report |-> r.report, o |-> o]
           /\ ret' = r.ret
           /\ IF r.raised # "" THEN RaisedToSmsTopLevel(r.raised, r.out)
              ELSE Continues("prompt", r.out \o <<Rep("print", "Ready to send test SMS")>>)
    /\ UNCHANGED <<confirm, args, script>>
    /\ UNCHANGED <<envVars, keyVars, scanVars, sumVars, httpVars>>

\* main, line 320: test_send_single_message up to its answer
TesterPrompt(a) ==
    /\ script = "test_sms_api" /\ pc = "prompt"
    /\ LET r == SendPrompt(a)
       IN  /\ confirm' = IF a.kind = "answer" THEN [read |-> TRUE, text |-> a.text] ELSE confirm
           /\ ret' = r.ret
           /\ IF r.raised # "" THEN RaisedToSmsTopLevel(r.raised, r.out)
              ELSE IF a.kind = "answer" /\ SendConfirmed(a.text)
              THEN Continues("send", r.out)
              ELSE Continues("summary", r.out)
    /\ UNCHANGED <<reqs, args, lastCall, script>>
    /\ UNCHANGED <<envVars, keyVars, scanVars, sumVars, httpVars>>

\* test_send_single_message after an affirmative answer
TesterSend(o) ==
    /\ script = "test_sms_api" /\ pc = "send"
    /\ LET r == SendRequest(o)
       IN  /\ reqs' = Append(reqs, SendMessageRequest)
           /\ lastCall' = [call |-> "send", cond |-> SmsCond(o), report |-> r.report, o |-> o]
           /\ ret' = r.ret
           /\ IF r.raised # "" THEN RaisedToSmsTopLevel(r.raised, r.out)
              ELSE Continues("summary", r.out)
    /\ UNCHANGED <<confirm, args, script>>
    /\ UNCHANGED <<envVars, keyVars, scanVars, sumVars, httpVars>>

\* main, lines 322-339, and the normal end of the process
TesterSummary ==
    /\ script = "test_sms_api" /\ pc = "summary"
    /\ Exits(0, "return", <<Rep("header", "SUMMARY & RECOMMENDATIONS")>>)
    /\ UNCHANGED <<reqs, confirm, ret, args, lastCall, script>>
    /\ UNCHANGED <<envVars, keyVars, scanVars, sumVars, httpVars>>

\* analyze_sms_config.py: main, lines 238-247
AnalyzerAnalyze ==
    /\ script = "analyze_sms_config" /\ pc = "start"
    /\ LET r == analyze_sms_configuration(envFile)
       IN  /\ ret' = r.ret
           /\ Continues("scan", <<Rep("banner", "ParkTayo SMS Configuration Analyzer")>> \o r.out)
    /\ UNCHANGED <<reqs, confirm, args, lastCall, script>>
    /\ UNCHANGED <<envVars, keyVars, scanVars, sumVars, httpVars>>

\* main, lines 250-253: the scan of the service code, then whether the API
\* test is offered
AnalyzerCheckCode ==
    /\ script = "analyze_sms_config" /\ pc = "scan"
    /\ analyzerScan' = check_sms_service_code(srcFile)
    /\ Continues(IF ApiTestOffered(ret) THEN "prompt" ELSE "summary",
                 <<Rep("header", "SMS SERVICE CODE ANALYSIS")>>)
    /\ UNCHANGED <<reqs, confirm, ret, args, lastCall, script, srcFile, testerScan>>
    /\ UNCHANGED <<envVars, keyVars, sumVars, httpVars>>

\* main, lines 254-256: input() is called in main itself
AnalyzerPrompt(a) ==
    /\ script = "analyze_sms_config" /\ pc = "prompt"
    /\ LET printed == <<Rep("prompt", "Do you want to test the SMS API? (y/n)")>>
       IN  IF a.kind = "KeyboardInterrupt"
           THEN RaisedToSmsTopLevel("KeyboardInterrupt", printed) /\ UNCHANGED confirm
           ELSE IF a.kind = "EOF"
           THEN RaisedToSmsTopLevel("EOFError", printed) /\ UNCHANGED confirm
           ELSE /\ confirm' = [read |-> TRUE, text |-> a.text]
                /\ Continues(IF ProceedConfirmed(a.text) THEN "devices" ELSE "summary", printed)
    /\ UNCHANGED <<reqs, ret, args, lastCall, script>>
    /\ UNCHANGED <<envVars, keyVars, scanVars, sumVars, httpVars>>

\* main, lines 257-260: a server URL without a scheme is refused by
\* requests.post before anything is sent
AnalyzerTestDevices(o) ==
    /\ script = "analyze_sms_config" /\ pc = "devices"
    /\ LET api_key    == ret.v["SMS_API_KEY"].v
           server_url == ret.v["SMS_SERVER_URL"].v
           r          == test_sms_api_devices(api_key, server_url, o)
       IN  /\ UrlUsable(server_url) <=> o # Raises("MissingSchema")
           /\ reqs' = IF UrlUsable(server_url)
                      THEN Append(reqs, Req("POST", "/services/get-devices.php", {"key"}, api_key))
                      ELSE reqs
           /\ lastCall' = [call |-> "analyzer-devices", cond |-> SmsCond(o),
                           report |-> r.report, o |-> o]
           /\ IF r.raised # "" THEN RaisedToSmsTopLevel(r.raised, r.out)
              ELSE Continues("summary", r.out)
    /\ UNCHANGED <<confirm, ret, args, script>>
    /\ UNCHANGED <<envVars, keyVars, scanVars, sumVars, httpVars>>

\* main, lines 262-287, and the normal end of the process
AnalyzerSummary ==
    /\ script = "analyze_sms_config" /\ pc = "summary"
    /\ Exits(0, "return",
             <<Rep("header", "SUMMARY & SOLUTION")>>
                 \o (IF PyTruthy(ret) THEN <<Rep("print", "Current .env values")>> ELSE <<>>))
    /\ UNCHANGED <<reqs, confirm, ret, args, lastCall, script>>
    /\ UNCHANGED <<envVars, keyVars, scanVars, sumVars, httpVars>>

\* test_places_api.py: main, lines 173-174
PlacesParseLocation ==
    /\ script = "test_places_api" /\ pc = "start"
    /\ LET l     == parse_location(args.location)
           first == IF args.mode \in {"autocomplete", "both"} THEN "autocomplete" ELSE "textsearch"
       IN  /\ ret' = l
           /\ IF l.kind = "SystemExit" THEN RaisedSystemExit(LocationUsageMessage)
              ELSE Continues(IF args.backend THEN first ELSE "key", <<>>)
    /\ UNCHANGED <<reqs, confirm, args, lastCall, script>>
    /\ UNCHANGED <<envVars, keyVars, scanVars, sumVars, httpVars>>

\* main, line 186
PlacesResolveKey ==
    /\ script = "test_places_api" /\ pc = "key"
    /\ LET k == resolve_api_key(cliKey, envVar, envFile)
       IN  /\ keyResult' = k
           /\ IF k.kind = "SystemExit" THEN RaisedSystemExit(KeyNotFoundMessage)
              ELSE Continues(IF args.mode \in {"autocomplete", "both"}
                             THEN "autocomplete" ELSE "textsearch", <<>>)
    /\ UNCHANGED <<reqs, confirm, ret, args, lastCall, script, cliKey, envVar>>
    /\ UNCHANGED <<envVars, scanVars, sumVars, httpVars>>

\* what the operator is shown for a probe: summarize's lines, with the
\* interpreter's traceback when something was raised
ProbeReport(r) == IF r.raised # "" THEN r.out \o Uncaught(r.raised).out ELSE r.report

\* a variant that repeats the request of a probe that raised
PlacesProbedRetrying(title, in, request, next, r) ==
    /\ reqs' = IF r.raised # "" THEN reqs \o <<request, request>> ELSE Append(reqs, request)
    /\ lastCall' = [call |-> title, cond |-> UrlCond(in), o |-> in, report |-> ProbeReport(r)]
    /\ IF r.raised # "" THEN RaisedUncaught(r.raised, r.out) ELSE Continues(next, r.out)
    /\ UNCHANGED <<confirm, ret, args, script>>
    /\ UNCHANGED <<envVars, keyVars, scanVars, sumVars, httpVars>>

\* what main does with the outcome r of a probe: an exception reaches no
\* handler, anything else leads to the next step
PlacesProbed(title, in, request, next, r) ==
    /\ reqs' = Append(reqs, request)
    /\ lastCall' = [call |-> title, cond |-> UrlCond(in), o |-> in, report |-> ProbeReport(r)]
    /\ IF r.raised # "" THEN RaisedUncaught(r.raised, r.out) ELSE Continues(next, r.out)
    /\ UNCHANGED <<confirm, ret, args, script>>
    /\ UNCHANGED <<envVars, keyVars, scanVars, sumVars, httpVars>>

\* main, lines 178-180 and 187-189
PlacesAutocomplete(in) ==
    /\ script = "test_places_api" /\ pc = "autocomplete"
    /\ IF args.backend
       THEN PlacesProbed("Backend Autocomplete", in, do_backend_autocomplete,
                         IF args.mode = "both" THEN "textsearch" ELSE "done",
                         PlacesProbe("Backend Autocomplete", in, TRUE))
       ELSE PlacesProbed("Google Autocomplete", in, do_google_autocomplete(keyResult.value),
                         IF args.mode = "both" THEN "textsearch" ELSE "done",
                         PlacesProbe("Google Autocomplete", in, FALSE))

\* main, lines 181-183 and 190-192
PlacesTextSearch(in) ==
    /\ script = "test_places_api" /\ pc = "textsearch"
    /\ IF args.backend
       THEN PlacesProbed("Backend TextSearch", in, do_backend_textsearch, "done",
                         PlacesProbe("Backend TextSearch", in, TRUE))
       ELSE PlacesProbed("Google TextSearch", in, do_google_textsearch(keyResult.value), "done",
                         PlacesProbe("Google TextSearch", in, FALSE))

\* main returns: the normal end of the process
PlacesReturn ==
    /\ script = "test_places_api" /\ pc = "done"
    /\ Exits(0, "return", <<>>)
    /\ UNCHANGED <<reqs, confirm, ret, args, lastCall, script>>
    /\ UNCHANGED <<envVars, keyVars, scanVars, sumVars, httpVars>>

\* the operator interrupts the process (KeyboardInterrupt where it stands):
\* the analyzer wraps all of main in its try (lines 290-299), the SMS tester
\* everything after lines 342-346 (lines 348-357), the Places tester nothing
\* (lines 195-196)
Interrupt ==
    /\ pc # "exited"
    /\ IF script = "analyze_sms_config" \/ (script = "test_sms_api" /\ pc # "start")
       THEN RaisedToSmsTopLevel("KeyboardInterrupt", <<>>)
       ELSE RaisedUncaught("KeyboardInterrupt", <<>>)
    /\ UNCHANGED <<reqs, confirm, ret, args, lastCall, script>>
    /\ UNCHANGED <<envVars, keyVars, scanVars, sumVars, httpVars>>

NextRun ==
    \/ TesterPrologue
    \/ \E o \in DeviceOutcomes : TesterGetDevices(o)
    \/ \E o \in BalanceOutcomes : TesterGetBalance(o)
    \/ \E a \in PromptInputs : TesterPrompt(a)
    \/ \E o \in SendOutcomes : TesterSend(o)
    \/ TesterSummary
    \/ AnalyzerAnalyze
    \/ AnalyzerCheckCode
    \/ \E a \in PromptInputs : AnalyzerPrompt(a)
    \/ \E o \in DeviceOutcomes \cup {Raises("MissingSchema")} : AnalyzerTestDevices(o)
    \/ AnalyzerSummary
    \/ PlacesParseLocation
    \/ PlacesResolveKey
    \/ \E in \in PlacesInputs : PlacesAutocomplete(in)
    \/ \E in \in PlacesInputs : PlacesTextSearch(in)
    \/ PlacesReturn
    \/ Interrupt

SpecRun == InitRun /\ [][NextRun]_vars

(***************************************************************************)
(* Properties of a run.                                                    *)
(***************************************************************************)
\* the requests that send a real SMS: a POST to send.php with number and message
SendRequestsIssued ==
    {i \in 1..Len(reqs) :
        /\ reqs[i].method = "POST"
        /\ reqs[i].endpoint = "/services/send.php"
        /\ {"number", "message"} \subseteq reqs[i].fields}

\* 'y' after trimming and lower-casing
Affirmative(text) == RuleTrim(text) \in {<<"y">>, <<"Y">>}

\* C3: in a run of the SMS API tester a request that sends a real SMS has
\* been issued only if the operator's answer was read and was affirmative;
\* after any other answer no such request exists in the run and
\* test_send_single_message has returned no result.
C3_SendOnlyAfterYes ==
    script = "test_sms_api" =>
        /\ SendRequestsIssued # {} => confirm.read /\ Affirmative(confirm.text)
        /\ (confirm.read /\ ~Affirmative(confirm.text)) =>
               SendRequestsIssued = {} /\ ret = JNull

C3_Witness ==
    /\ script = "test_sms_api" /\ pc = "exited"
    /\ confirm.read /\ confirm.text = <<" ", "Y">>
    /\ SendRequestsIssued # {}
    /\ Len(reqs) = 3

\* the report of the last call if the transport had done o instead
ReportFor(call, o) ==
    CASE call = "devices"          -> test_get_devices(o).report
      [] call = "balance"          -> test_get_balance(o).report
      [] call = "send"             -> SendRequest(o).report
      [] call = "analyzer-devices" ->
             test_sms_api_devices(ret.v["SMS_API_KEY"].v, ret.v["SMS_SERVER_URL"].v, o).report
      [] OTHER                     -> ProbeReport(PlacesProbe(call, o, args.backend))

\* a refused connection and the non-200 statuses, for the library of the script
RefusedOrNon200 ==
    IF script = "test_places_api"
    THEN {[kind |-> k, status |-> 0, body |-> <<>>] :
             k \in {"URLError: Connection refused", "HTTPError"}}
    ELSE {Raises("ConnectionError"), Responds(404, NoBody), Responds(500, NoBody)}

\* C7: whenever an HTTP call of a script met a transport timeout, what the
\* operator was shown for it differs from what is shown for a refused
\* connection and from what is shown for a non-200 status.
C7_TimeoutDistinguishable ==
    lastCall.cond = "timeout" =>
        \A o \in RefusedOrNon200 : lastCall.report # ReportFor(lastCall.call, o)

\* the device list of a successful listing by test_get_devices
SuccessfulListing ==
    /\ script = "test_sms_api" /\ lastCall.call = "devices"
    /\ lastCall.o.kind = "response" /\ lastCall.o.status = 200
    /\ lastCall.o.body.shape = "dict" /\ lastCall.o.body.success

ListedDevices == lastCall.o.body.devices

HasConfiguredId ==
    \E i \in 1..Len(ListedDevices) :
        ListedDevices[i].id.t = "int" /\ ListedDevices[i].id.v = 2

Reported(label, detail) ==
    \E i \in 1..Len(lastCall.report) :
        lastCall.report[i].label = label /\ lastCall.report[i].detail = detail

\* C8: after a successful listing test_get_devices reports that the device
\* exists exactly when some listed device has the id 2; otherwise it reports
\* that it was not found together with the ids of all listed devices in
\* their order; in both cases it returns the listed devices.
C8_ConfigurationCheck ==
    SuccessfulListing =>
        /\ HasConfiguredId <=> Reported("ok", "Device ID EXISTS in the SMS server!")
        /\ ~HasConfiguredId <=> Reported("error", "Device ID NOT FOUND!")
        /\ ~HasConfiguredId =>
               \E i \in 1..Len(lastCall.report) :
                   /\ lastCall.report[i].label = "available-ids"
                   /\ lastCall.report[i].data =
                          [j \in 1..Len(ListedDevices) |-> ListedDevices[j].id]
        /\ ret = JList(ListedDevices)

C8_Witness ==
    /\ SuccessfulListing
    /\ Len(ListedDevices) = 2
    /\ ListedDevices[1].id = JStr(<<"2">>)
    /\ HasConfiguredId
    /\ pc = "balance"

\* C10: in each script a run ended by an interrupt has exit status 0 and
\* ends its output with a short notice, and a run ended by any other
\* exception has exit status 1 and a printed traceback.
C10_InterruptAndCrashExits ==
    pc = "exited" =>
        /\ cause = "KeyboardInterrupt" =>
               exitStatus = 0 /\ out # <<>> /\ out[Len(out)].label = "notice"
        /\ cause \notin {"return", "KeyboardInterrupt", "SystemExit"} =>
               /\ exitStatus = 1
               /\ \E i \in 1..Len(out) : out[i].label = "traceback" /\ out[i].detail = cause

\* a decimal number as the operator writes it: blanks around, an optional
\* sign, digits with at most one point and at least one digit
DecimalText(t) ==
    LET s == RuleTrim(t)
        u == IF s # <<>> /\ s[1] \in {"+", "-"} THEN SubSeq(s, 2, Len(s)) ELSE s
    IN  /\ {u[i] : i \in 1..Len(u)} \subseteq Digits \cup {"."}
        /\ {i \in 1..Len(u) : u[i] \in Digits} # {}
        /\ \A i, j \in 1..Len(u) : u[i] = "." /\ u[j] = "." => i = j

\* the positions of the commas of a --location value
CommasOf(l) == {i \in 1..Len(l) : l[i] = ","}

\* exactly two comma-separated decimal numbers
LocationWellFormed(l) ==
    /\ Cardinality(CommasOf(l)) = 1
    /\ \A c \in CommasOf(l) :
           DecimalText(SubSeq(l, 1, c - 1)) /\ DecimalText(SubSeq(l, c + 1, Len(l)))

\* a run of the Places tester without --backend
DirectRun == script = "test_places_api" /\ ~args.backend

\* no source of the API key yields a non-empty value
NoKeySource == ~Truthy(cliKey) /\ ~Truthy(envVar) /\ ~Truthy(FileKey)

\* C11: in a run of the Places tester without --backend in which neither
\* --key, nor the environment, nor the .env file yields a non-empty
\* GOOGLE_MAPS_API_KEY, no HTTP request is ever issued and no key is held,
\* the run never gets past the resolution of the key, and when it ends
\* there (the --location being well-formed and the operator not having
\* interrupted it) it ends with exit status 1 and the message that names the
\* missing key; with the .env file missing and a non-empty key from --key
\* or the environment, the resolution returns that key and the run goes on
\* to its probes.
C11_MissingKeyStopsDirectRun ==
    DirectRun =>
        /\ NoKeySource =>
               /\ reqs = <<>>
               /\ keyResult.kind # "return"
               /\ pc \in {"start", "key", "exited"}
        /\ (/\ NoKeySource /\ LocationWellFormed(args.location)
            /\ pc = "exited" /\ cause # "KeyboardInterrupt") =>
               /\ exitStatus # 0
               /\ cause = "SystemExit"
               /\ out = <<Rep("stderr", KeyNotFoundMessage)>>
               /\ keyResult.kind = "SystemExit"
        /\ (/\ ~envFile.exists /\ (Truthy(cliKey) \/ Truthy(envVar))
            /\ keyResult.kind # "none") =>
               /\ keyResult = Returned(IF Truthy(cliKey) THEN cliKey.v ELSE envVar.v)
               /\ cause # "SystemExit"
               /\ pc \in {"autocomplete", "textsearch", "done", "exited"}

\* C11 witness: an empty --key, no variable and a .env file whose key has no
\* value; the run ended at the resolution of the key.
C11_Witness ==
    /\ DirectRun /\ NoKeySource
    /\ cliKey.set /\ envFile.exists
    /\ pc = "exited" /\ cause = "SystemExit" /\ exitStatus = 1
    /\ out = <<Rep("stderr", KeyNotFoundMessage)>>
    /\ reqs = <<>>

(***************************************************************************)
(* Specification SpecLocation: runs of the Places tester over every short  *)
(* --location text.                                                        *)
(***************************************************************************)
MaxLocLen == 4

LocAlphabet == {"1", "0", ".", ",", "-", " ", "x"}

LocationTexts == TextsUpTo(LocAlphabet, MaxLocLen) \cup Locations

InitLocation ==
    /\ script = "test_places_api"
    /\ pc = "start" /\ out = <<>> /\ reqs = <<>> /\ exitStatus = -1 /\ cause = ""
    /\ confirm = NoAnswer /\ ret = JNull /\ lastCall = NoCall
    /\ args \in {[mode |-> "both", backend |-> b, location |-> l] :
                    b \in BOOLEAN, l \in LocationTexts}
    /\ cliKey = [set |-> TRUE, v |-> <<"c">>] /\ envVar = NoValue /\ keyResult = NoKeyResult
    /\ EnvIdle /\ ScanIdle /\ SumIdle /\ HttpIdle

NextLocation ==
    \/ PlacesParseLocation
    \/ PlacesResolveKey
    \/ \E in \in PlacesInputs : PlacesAutocomplete(in)
    \/ \E in \in PlacesInputs : PlacesTextSearch(in)
    \/ PlacesReturn
    \/ Interrupt

SpecLocation == InitLocation /\ [][NextLocation]_vars

IsDigitChar(c) == c \in Digits

\* the number f is the one the decimal text t denotes: the digits of t read
\* as an integer, divided by ten for each digit behind the point
Denotes(f, t) ==
    LET s == RuleTrim(t)
        u == IF s[1] \in {"+", "-"} THEN SubSeq(s, 2, Len(s)) ELSE s
        k == Cardinality({i \in 1..Len(u) :
                             u[i] \in Digits /\ \E j \in 1..(i - 1) : u[j] = "."})
    IN  /\ f.neg <=> s[1] = "-"
        /\ Len(f.frac) <= k
        /\ f.frac # <<>> => f.frac[Len(f.frac)] # "0"
        /\ f.whole * Pow10(k) + NumberValue(f.frac) * Pow10(k - Len(f.frac))
               = NumberValue(SelectSeq(u, IsDigitChar))

\* the text before and after the comma of a well-formed --location
BeforeComma(l) == SubSeq(l, 1, (CHOOSE c \in CommasOf(l) : TRUE) - 1)

AfterComma(l) == SubSeq(l, (CHOOSE c \in CommasOf(l) : TRUE) + 1, Len(l))

\* parse_location has returned or raised in this run
LocationParsed == ret # JNull

\* C12: in a run of the Places tester, with or without --backend, a
\* --location that is not exactly two comma-separated decimal numbers ends
\* the process at parse_location with status 1 and the usage message, the
\* API key never resolved and no HTTP request issued; the key is resolved
\* and requests are issued only after parse_location has returned; and for
\* a well-formed value it returns the pair (lat, lng) in that order, lat the
\* number before the comma and lng the number after it.
C12_LocationParsedFirst ==
    script = "test_places_api" =>
        /\ ~LocationWellFormed(args.location) =>
               /\ pc \in {"start", "exited"}
               /\ keyResult = NoKeyResult /\ reqs = <<>>
               /\ (pc = "exited" /\ cause # "KeyboardInterrupt") =>
                      /\ cause = "SystemExit" /\ exitStatus = 1
                      /\ out = <<Rep("stderr", LocationUsageMessage)>>
        /\ (keyResult # NoKeyResult \/ reqs # <<>>) =>
               LocationParsed /\ ret.kind = "return"
        /\ (LocationWellFormed(args.location) /\ LocationParsed) =>
               /\ ret.kind = "return"
               /\ Denotes(ret.lat, BeforeComma(args.location))
               /\ Denotes(ret.lng, AfterComma(args.location))

\* C12 witness: --backend, a --location of three parts, and the run ended
\* with the usage message.
C12_Witness ==
    /\ script = "test_places_api" /\ args.backend
    /\ args.location = ThreePartLocation
    /\ pc = "exited" /\ cause = "SystemExit" /\ exitStatus = 1
    /\ out = <<Rep("stderr", LocationUsageMessage)>>
    /\ keyResult = NoKeyResult /\ reqs = <<>>

\* the step issued an HTTP request
RequestIssued == reqs' # reqs

\* what the operator is shown for a non-200 status: its code, and the body
StatusShown(report, call) ==
    \E i \in 1..Len(report) :
        \/ report[i].label = "status"
        \/ report[i].label = "error" /\ report[i].detail = "HTTP Error: " \o ToString(call.status)

BodyShown(report) ==
    \E i \in 1..Len(report) :
        report[i].label = "print" /\ report[i].detail \in {"Response", "Response text"}

\* C13: in every script, a step whose HTTP call was answered with a non-200
\* status shows the operator the status code and the body, and does not end
\* the process: the script goes on to its next step.
C13_Non200ReportedNonFatal ==
    [][(RequestIssued /\ lastCall'.cond = "non200") =>
           /\ pc' # "exited"
           /\ StatusShown(lastCall'.report, lastCall'.o)
           /\ BodyShown(lastCall'.report)]_vars

\* a transport failure: refused connection or timeout
TransportFailed == lastCall'.cond \in {"refused", "timeout"}

\* C14: a network step that met a transport failure issues its one request
\* only, reports the failure, and the script goes on to its independent
\* later steps: in the SMS API tester the balance query follows a failed
\* device listing, and in the Places tester with mode 'both' the text-search
\* call follows a failed autocomplete call.
C14_LaterStepsAfterTransportFailure ==
    [][(RequestIssued /\ TransportFailed) =>
           /\ Len(reqs') = Len(reqs) + 1
           /\ lastCall'.report # <<>>
           /\ (script = "test_sms_api" /\ pc = "devices") => pc' = "balance"
           /\ (script = "test_places_api" /\ args.mode = "both" /\ pc = "autocomplete") =>
                  pc' = "textsearch"]_vars

\* a SIM of a device is present: named by the device and not empty
SimPresent(device, name) ==
    /\ name \in DOMAIN device
    /\ device[name] # JNull
    /\ device[name].t = "dict" => DOMAIN device[name].v # {}

\* the first listed device with the configured id
TargetDevice ==
    ListedDevices[CHOOSE i \in 1..Len(ListedDevices) :
                      /\ IdEquals(ListedDevices[i].id, DEFAULT_DEVICE)
                      /\ \A j \in 1..(i - 1) : ~IdEquals(ListedDevices[j].id, DEFAULT_DEVICE)]

SimSlotAccepted == \E n \in {"sim1", "sim2"} : Reported("sim-details", n)

SimSlotRefused == Reported("error", "SIM Slot not found on this device!")

\* the SIM that a slot index names
SlotSim(slot) == IF slot = 0 THEN "sim1" ELSE "sim2"

\* C15: after a successful listing by test_get_devices that holds the
\* configured device id, the configured SIM slot (1) is accepted exactly
\* when that device has a present, non-empty sim2, and otherwise the error
\* is printed; in either case the listed devices are returned and main goes
\* on to the balance query; when the configured device is not listed, the
\* SIM slot is neither accepted nor refused. For any configured slot the
\* check of lines 101-110 accepts slot 0 exactly when sim1 is present and
\* non-empty, slot 1 exactly when sim2 is, and refuses every other case.
C15_SimSlotValidated ==
    /\ SuccessfulListing =>
           /\ HasConfiguredId =>
                  /\ SimSlotAccepted <=> SimPresent(TargetDevice, SlotSim(DEFAULT_SIM_SLOT))
                  /\ SimSlotRefused <=> ~SimPresent(TargetDevice, SlotSim(DEFAULT_SIM_SLOT))
                  /\ Reported("sim-details", SlotSim(1 - DEFAULT_SIM_SLOT)) = FALSE
                  /\ ret = JList(ListedDevices)
                  /\ pc = "balance" \/ (pc = "exited" /\ cause = "KeyboardInterrupt")
           /\ ~HasConfiguredId => ~SimSlotAccepted /\ ~SimSlotRefused
    /\ \A slot \in 0..2, d \in SampleDevices :
           SimCheckFor(slot, d) =
               IF slot \in {0, 1} /\ SimPresent(d, SlotSim(slot))
               THEN <<Rep("sim-details", SlotSim(slot))>>
               ELSE <<Rep("error", "SIM Slot not found on this device!")>>

\* C15 witness: the configured device is listed with an empty sim2 after a
\* device that has both SIMs; the slot was refused and main went on.
C15_Witness ==
    /\ SuccessfulListing /\ HasConfiguredId
    /\ Len(ListedDevices) = 2
    /\ ListedDevices[1] = Device(JInt(1), SimCard, SimCard)
    /\ TargetDevice = Device(JInt(2), Absent, EmptySim)
    /\ SimSlotRefused /\ ~SimSlotAccepted
    /\ ret = JList(ListedDevices)
    /\ pc = "balance"

\* analyze_sms_configuration has run
Analyzed ==
    \E i \in 1..Len(out) : out[i] = Rep("header", "SMS CONFIGURATION ANALYSIS")

\* what the parsing rule gives a key of the file, 'NOT SET' for a key the
\* file does not define
FileValueOrSentinel(k) ==
    LET map == ExpectedEnvMap(envFile.text)
    IN  IF SmsKeyText(k) \in DOMAIN map THEN map[SmsKeyText(k)] ELSE NOT_SET

\* the operator answered 'y' to the analyzer's question
AnsweredY == confirm.read /\ confirm.text \in {<<"y">>, <<"Y">>}

\* C16: in a run of the configuration analyzer on an existing .env file,
\* with or without significant lines, analyze_sms_configuration yields for
\* each of the five SMS keys the value the file gives it and 'NOT SET' for a
\* key the file does not define; and a device-listing request has been
\* issued only if SMS_API_KEY is not 'NOT SET' and the operator answered 'y'.
C16_SentinelForUndefinedKeys ==
    (script = "analyze_sms_config" /\ envFile.exists /\ Analyzed) =>
        /\ ret.t = "dict"
        /\ \A k \in SmsKeys : ret.v[k] = JStr(FileValueOrSentinel(k))
        /\ reqs # <<>> => ret.v["SMS_API_KEY"] # JStr(NOT_SET) /\ AnsweredY

\* the probes a run makes once it reaches them
ProbesOfMode == IF args.mode = "both" THEN 2 ELSE 1

AutocompleteEndpoints ==
    {do_backend_autocomplete.endpoint, do_google_autocomplete(<<>>).endpoint}

TextSearchEndpoints ==
    {do_backend_textsearch.endpoint, do_google_textsearch(<<>>).endpoint}

\* summarize has printed the lines of a probe
Summarised(title) == \E i \in 1..Len(out) : out[i] = Rep("title", title)

\* with mode 'both' the autocomplete request comes first, and it was issued
\* and summarised before the text-search request
AutocompleteFirst ==
    args.mode = "both" =>
        /\ Len(reqs) >= 1 => reqs[1].endpoint \in AutocompleteEndpoints
        /\ Len(reqs) = 2 =>
               /\ reqs[2].endpoint \in TextSearchEndpoints
               /\ Summarised(IF args.backend THEN "Backend Autocomplete"
                             ELSE "Google Autocomplete")

\* with --backend every request is a POST to the proxy without a key and the
\* key is never resolved; without it every request is a GET to the direct
\* endpoint carrying the resolved key
RequestsByMode ==
    IF args.backend
    THEN /\ keyResult = NoKeyResult
         /\ \A i \in 1..Len(reqs) :
                /\ reqs[i].method = "POST"
                /\ reqs[i].endpoint \in {do_backend_autocomplete.endpoint,
                                         do_backend_textsearch.endpoint}
                /\ "key" \notin reqs[i].fields /\ reqs[i].key = <<>>
    ELSE \A i \in 1..Len(reqs) :
                /\ reqs[i].method = "GET"
                /\ reqs[i].endpoint \in {do_google_autocomplete(<<>>).endpoint,
                                         do_google_textsearch(<<>>).endpoint}
                /\ "key" \in reqs[i].fields
                /\ keyResult.kind = "return"
                /\ reqs[i].key = keyResult.value /\ reqs[i].key # <<>>
                /\ reqs[i].key = (IF Truthy(cliKey) THEN cliKey.v
                                  ELSE IF Truthy(envVar) THEN envVar.v ELSE FileKey.v)

\* the requests a run has issued when main stands at pc
RequestsByPosition ==
    /\ pc \in {"start", "key", "autocomplete"} => reqs = <<>>
    /\ pc = "textsearch" => Len(reqs) = ProbesOfMode - 1
    /\ pc = "done" => Len(reqs) = ProbesOfMode
    /\ Len(reqs) <= ProbesOfMode
    /\ lastCall.call # "" <=> reqs # <<>>

\* the run has ended by an uncaught exception of a probe
EndedInProbe == pc = "exited" /\ cause \notin {"return", "SystemExit", "KeyboardInterrupt"}

\* C17: in the Places tester every probe issues exactly one request and
\* never repeats it: a run that reaches its probes and returns from main has
\* issued exactly one request for mode 'autocomplete' or 'textsearch' and
\* two for mode 'both', a run ended by the exception of a probe has issued
\* the requests up to that probe (one for 'autocomplete' or 'textsearch',
\* one or two for 'both'), and no run issues more; a run ended before its
\* probes by SystemExit has issued none. With mode 'both' the autocomplete
\* request is issued and summarised before the text-search request. With
\* --backend every request goes to the proxy and the API key is never
\* resolved; without it every request goes to the direct endpoint and
\* carries the resolved key.
C17_OneRequestPerProbe ==
    script = "test_places_api" =>
        /\ RequestsByPosition
        /\ (pc = "exited" /\ cause = "return") => Len(reqs) = ProbesOfMode
        /\ EndedInProbe => Len(reqs) >= 1
        /\ (pc = "exited" /\ cause = "SystemExit") => reqs = <<>>
        /\ AutocompleteFirst
        /\ RequestsByMode

\* C17 witness: a direct run with mode 'both' whose key came from the .env
\* file; both probes were made and main returned.
C17_Witness ==
    /\ DirectRun /\ args.mode = "both"
    /\ ~Truthy(cliKey) /\ ~Truthy(envVar) /\ Truthy(FileKey)
    /\ pc = "exited" /\ cause = "return"
    /\ Len(reqs) = 2
    /\ reqs[1] = do_google_autocomplete(FileKey.v)
    /\ reqs[2] = do_google_textsearch(FileKey.v)
    /\ Summarised("Google Autocomplete") /\ Summarised("Google TextSearch")

====
